---- MODULE Spec2Model ----
(***************************************************************************)
(* Address Resolution Pipeline of Rental-Properties-Pipeline.              *)
(*                                                                         *)
(* Texts are sequences of characters.  The characters that matter to the   *)
(* code are: ASCII lower/upper case letters, blanks, non-ASCII (Armenian)  *)
(* lower/upper case letters and the delimiter marker.                      *)
(*                                                                         *)
(* Dictionaries (python dict, pandas row) are functions from a set of      *)
(* keys to values.                                                         *)
(***************************************************************************)
EXTENDS Integers, Sequences, FiniteSets, TLC

\* ------------------------------------------------------------------------
\* Characters and texts
\* ------------------------------------------------------------------------

\* "hy" / "HY": a lower / upper case Armenian letter, "dl": the delimiter
\* marker U+203A, "hy..": a run of Armenian letters as long as the byte
\* limit of a translation request.  Every other character is ASCII.
NonAscii == {"hy", "HY", "dl", "hy.."}

\* str.isascii()
IsAscii(s) == \A k \in 1..Len(s) : s[k] \notin NonAscii

\* str.lower(), character by character
LowerChar(c) ==
  CASE c = "A" -> "a"
    [] c = "B" -> "b"
    [] c = "HY" -> "hy"
    [] OTHER -> c

Lower(s) == [k \in 1..Len(s) |-> LowerChar(s[k])]

RECURSIVE LStrip(_)
LStrip(s) == IF s # <<>> /\ Head(s) = " " THEN LStrip(Tail(s)) ELSE s

RECURSIVE RStrip(_)
RStrip(s) ==
  IF s # <<>> /\ s[Len(s)] = " " THEN RStrip(SubSeq(s, 1, Len(s) - 1)) ELSE s

\* str.strip()
Strip(s) == RStrip(LStrip(s))

\* a missing value (NaN) of a text column, and str() of a cell
NaN == <<"NaN">>
StrOf(v) == IF v = NaN THEN <<"n", "a", "n">> ELSE v

\* is_non_english_string: no delimiter marker and not pure ASCII
is_non_english_string(s) ==
  (\A k \in 1..Len(s) : s[k] # "dl") /\ ~IsAscii(s)

\* ------------------------------------------------------------------------
\* Dictionaries
\* ------------------------------------------------------------------------

EmptyDict == [k \in {} |-> ""]

\* python truthiness of a dict
Truthy(d) == DOMAIN d # {}

\* d[key] = value
DictSet(d, key, value) ==
  [k \in (DOMAIN d) \cup {key} |-> IF k = key THEN value ELSE d[k]]

\* dict.get(key) with None / "" rendered as ""
DictGet(d, key) == IF key \in DOMAIN d THEN d[key] ELSE ""

\* csv_columns
ADDRESS == "Address"
TRANSLATED == "Translated"
LATITUDE == "Latitude"
LONGITUDE == "Longitude"
BUILDING == "Building"
STREET == "Street"
TOWN == "Town"
VILLAGE == "Village"
COUNTRY == "Country"
ADMINISTRATIVE_UNIT == "Administrative District"
PROVINCE == "Province"
NEIGHBOURHOOD == "Neighbourhood"
BLOCK == "Block"
LANE == "Lane"
STREET_NUMBER == "Street Number"
STATUS_COLUMN == "Status"

API == "api"

\* ------------------------------------------------------------------------
\* scripts/api/__init__.py : provider label -> column mappings, in the
\* order of the python dict literals
\* ------------------------------------------------------------------------

YEREVAN_DISTRICTS ==
  {"Ajapnyak", "Avan", "Davtashen", "Erebuni", "Kanaker-Zeytun", "Kentron",
   "Malatia-Sebastia", "Nor Nork", "Nork-Marash", "Nubarashen", "Shengavit",
   "Arabkir", "Qanaqer-Zeytun"}

NOMINATIM_MAPPING ==
  << <<"house_number", BUILDING>>, <<"road", STREET>>, <<"highway", STREET>>,
     <<"country", COUNTRY>>, <<"state", PROVINCE>>,
     <<"state_district", ADMINISTRATIVE_UNIT>>,
     <<"municipality", ADMINISTRATIVE_UNIT>>, <<"city", TOWN>>,
     <<"town", TOWN>>, <<"village", VILLAGE>>, <<"suburb", NEIGHBOURHOOD>>,
     <<"neighbourhood", NEIGHBOURHOOD>>, <<"quarter", NEIGHBOURHOOD>>,
     <<"allotments", NEIGHBOURHOOD>>, <<"subdivision", NEIGHBOURHOOD>>,
     <<"city_block", BLOCK>> >>

AZURE_MAPPING ==
  << <<"countryRegion", COUNTRY>>, <<"locality", TOWN>>,
     <<"neighborhood", NEIGHBOURHOOD>>, <<"streetName", STREET>> >>

YANDEX_MAPPING ==
  << <<"country", COUNTRY>>, <<"province", PROVINCE>>, <<"locality", TOWN>>,
     <<"street", STREET>>, <<"house", BUILDING>>,
     <<"area", ADMINISTRATIVE_UNIT>>, <<"district", NEIGHBOURHOOD>> >>

\* `for label, column in MAPPING.items(): if value := fields.get(label):
\*      parsed[column] = value`
RECURSIVE ApplyMapping(_, _, _, _)
ApplyMapping(parsed, fields, mapping, k) ==
  IF k > Len(mapping) THEN parsed
  ELSE LET label == mapping[k][1]
           column == mapping[k][2]
           value == DictGet(fields, label)
       IN ApplyMapping(IF value # "" THEN DictSet(parsed, column, value)
                                     ELSE parsed,
                       fields, mapping, k + 1)

\* the values v for which `"village" in str(v).lower()` holds
VillageNames == {"Aramus village"}

\* A parser either returns a dict or lets an exception escape.
Returned(d) == [raised |-> FALSE, value |-> d]
Raised == [raised |-> TRUE, value |-> EmptyDict]

\* ------------------------------------------------------------------------
\* scripts/api/parse.py
\* ------------------------------------------------------------------------

\* data: the decoded JSON body.
\*   kind "malformed": data[0] / .get fails with KeyError, IndexError or
\*                     TypeError, which the parser catches
\*   kind "list":      data[0] is a result; coords is "ok", "absent" or
\*                     "bad" (float() raises ValueError, not caught here)
parse_nominatim_components(data) ==
  IF data.kind = "malformed" THEN Returned(EmptyDict)
  ELSE IF data.coords = "bad" THEN Raised
  ELSE
    LET lat == IF data.coords = "absent" THEN "0.0" ELSE "lat"
        lon == IF data.coords = "absent" THEN "0.0" ELSE "lon"
        p0 == DictSet(DictSet(EmptyDict, LATITUDE, lat), LONGITUDE, lon)
        suburb == DictGet(data.address, "suburb")
        isDistrict == suburb \in YEREVAN_DISTRICTS
        p1 == IF isDistrict THEN DictSet(p0, ADMINISTRATIVE_UNIT, suburb) ELSE p0
        a1 == IF isDistrict THEN DictSet(data.address, "suburb", "")
                            ELSE data.address
        locality == DictGet(a1, "locality")
        isVillage == locality \in VillageNames
        p2 == IF isVillage THEN DictSet(p1, VILLAGE, locality) ELSE p1
        a2 == IF isVillage THEN DictSet(a1, "locality", "") ELSE a1
    IN Returned(ApplyMapping(p2, a2, NOMINATIM_MAPPING, 1))

\* results: the "results" list of the body.
\*   kind "malformed": results[0] fails with a caught exception
\*   kind "list":      results[0] has an "address" dict (possibly empty)
parse_azure_components(results) ==
  IF results.kind = "malformed" THEN Returned(EmptyDict)
  ELSE IF ~Truthy(results.address) THEN Returned(EmptyDict)
  ELSE
    LET a == results.address
        secondary == DictGet(a, "countrySecondarySubdivision")
        street == IF DictGet(a, "streetName") # "" THEN DictGet(a, "streetName")
                  ELSE DictGet(a, "streetNumber")
        p0 == [k \in {PROVINCE, ADMINISTRATIVE_UNIT, NEIGHBOURHOOD, TOWN,
                      STREET, COUNTRY, LATITUDE, LONGITUDE} |->
                 CASE k = PROVINCE -> DictGet(a, "countrySubdivision")
                   [] k = ADMINISTRATIVE_UNIT ->
                        IF secondary # "" THEN secondary
                        ELSE DictGet(a, "municipality")
                   [] k = NEIGHBOURHOOD -> DictGet(a, "neighbourhood")
                   [] k = TOWN -> DictGet(a, "locality")
                   [] k = STREET -> street
                   [] k = COUNTRY -> DictGet(a, "country")
                   [] k = LATITUDE -> "lat"
                   [] k = LONGITUDE -> "lon"]
    IN Returned(ApplyMapping(p0, a, AZURE_MAPPING, 1))

\* data: the decoded JSON body.
\*   kind "malformed": a key of the nested path is missing (caught)
\*   kind "geo":       components is the kind -> name map; pos is "ok" or
\*                     "bad" (split / float raise ValueError, not caught)
parse_yandex_components(data) ==
  IF data.kind = "malformed" THEN Returned(EmptyDict)
  ELSE IF data.pos = "bad" THEN Raised
  ELSE
    LET p0 == DictSet(DictSet(EmptyDict, LONGITUDE, "lon"), LATITUDE, "lat")
        locality == DictGet(data.components, "locality")
        isVillage == locality \in VillageNames
        p1 == IF isVillage THEN DictSet(p0, VILLAGE, locality) ELSE p0
        c1 == IF isVillage THEN DictSet(data.components, "locality", "")
                           ELSE data.components
    IN Returned(ApplyMapping(p1, c1, YANDEX_MAPPING, 1))

\* ------------------------------------------------------------------------
\* HTTP responses.  status 0 stands for an exception raised by the request
\* itself (connection error, undecodable body).
\* ------------------------------------------------------------------------

NetworkError == 0

\* the Retry-After header: absent, the empty string, an integer number of
\* seconds, or a text int() cannot parse (an HTTP-date, `secs` seconds from
\* now)
RetryAfterSeconds == 3
DateSeconds == 7

NoHeader == [kind |-> "absent", secs |-> 0]
EmptyHeader == [kind |-> "empty", secs |-> 0]
DateHeader == [kind |-> "date", secs |-> DateSeconds]
SecondsHeader(n) == [kind |-> "int", secs |-> n]

RetryAfterHeaders ==
  {NoHeader, EmptyHeader, DateHeader, SecondsHeader(RetryAfterSeconds)}

NoBody == [kind |-> "empty"]

Response(status, body, header) ==
  [status |-> status, body |-> body, retry_after |-> header]

NominatimBodies ==
  { NoBody,
    [kind |-> "malformed"],
    [kind |-> "list", coords |-> "ok",
     address |-> [l \in {"road"} |-> "Abovyan Street"]],
    [kind |-> "list", coords |-> "absent",
     address |-> [l \in {"suburb", "locality"} |->
                    IF l = "suburb" THEN "Kentron" ELSE "Aramus village"]],
    [kind |-> "list", coords |-> "bad", address |-> EmptyDict] }

YandexBodies ==
  { NoBody,
    [kind |-> "malformed"],
    [kind |-> "geo", pos |-> "ok",
     components |-> [l \in {"street", "house"} |->
                       IF l = "street" THEN "Abovyan Street" ELSE "10"]],
    [kind |-> "geo", pos |-> "ok", components |-> EmptyDict],
    [kind |-> "geo", pos |-> "bad", components |-> EmptyDict] }

AzureBodies ==
  { [kind |-> "noresults"],
    [kind |-> "malformed"],
    [kind |-> "list", address |-> EmptyDict],
    [kind |-> "list",
     address |-> [l \in {"streetName", "countrySubdivision"} |->
                    IF l = "streetName" THEN "Abovyan Street" ELSE "Yerevan"]] }

NominatimResponses ==
  {Response(200, b, NoHeader) : b \in NominatimBodies}
    \cup {Response(500, NoBody, NoHeader), Response(NetworkError, NoBody, NoHeader)}

YandexResponses ==
  {Response(200, b, NoHeader) : b \in YandexBodies}
    \cup {Response(429, NoBody, h) : h \in RetryAfterHeaders}
    \cup {Response(500, NoBody, NoHeader), Response(NetworkError, NoBody, NoHeader)}

AzureResponses ==
  {Response(200, b, NoHeader) : b \in AzureBodies}
    \cup {Response(500, NoBody, NoHeader), Response(NetworkError, NoBody, NoHeader)}

\* ------------------------------------------------------------------------
\* scripts/api/geocode.py : the providers
\* ------------------------------------------------------------------------

MAX_RETRIES == 4
RETRY_BACKOFF == 5

\* `components, formatted = parse_..._components(...)`: the parsers return
\* one dict, so the assignment iterates over its keys.  It raises
\* ValueError unless the dict has exactly two keys, and then both names
\* are bound to key strings.
UnpackPair(parsed) ==
  IF Cardinality(DOMAIN parsed) = 2
  THEN [raised |-> FALSE, isDict |-> FALSE]
  ELSE [raised |-> TRUE, isDict |-> FALSE]

\* `components['api'] = name` followed by `return components`; item
\* assignment on a str raises TypeError
TagComponents(unpacked, parsed, name) ==
  IF unpacked.isDict THEN Returned(DictSet(parsed, API, name)) ELSE Raised

query_nominatim(response) ==
  IF response.status = NetworkError THEN EmptyDict
  ELSE IF response.status = 200 THEN
    IF response.body.kind = "empty" THEN EmptyDict
    ELSE LET parsed == parse_nominatim_components(response.body)
         IN IF parsed.raised THEN EmptyDict
            ELSE DictSet(parsed.value, API, "Nominatim")
  ELSE EmptyDict

query_azure(response) ==
  IF response.status = NetworkError THEN EmptyDict
  ELSE IF response.status = 200 THEN
    IF response.body.kind = "noresults" THEN EmptyDict
    ELSE LET parsed == parse_azure_components(response.body)
             unpacked == UnpackPair(parsed.value)
             tagged == TagComponents(unpacked, parsed.value, "Azure")
         IN IF parsed.raised \/ unpacked.raised \/ tagged.raised
            THEN EmptyDict
            ELSE tagged.value
  ELSE EmptyDict

\* One pass of the retry loop of query_yandex, for the response to the
\* request of attempt number `attempt`:
\*   done   - the function returns `value`
\*   ~done  - it sleeps `delay` seconds and goes on with the next attempt
YandexReturn(d) == [done |-> TRUE, value |-> d, delay |-> 0]
YandexSleep(delay) == [done |-> FALSE, value |-> EmptyDict, delay |-> delay]

\* the backoff without the attempt count
RetryDelay_FlatBackoff(header, attempt) ==
  CASE header.kind = "int" -> [raised |-> FALSE, delay |-> header.secs]
    [] header.kind = "date" -> [raised |-> TRUE, delay |-> 0]
    [] OTHER -> [raised |-> FALSE, delay |-> RETRY_BACKOFF]

\* int(retry_after) if retry_after else RETRY_BACKOFF * attempt; int() of
\* a text that is no integer raises ValueError
RetryDelay(header, attempt) ==
  CASE header.kind = "int" -> [raised |-> FALSE, delay |-> header.secs]
    [] header.kind = "date" -> [raised |-> TRUE, delay |-> 0]
    [] OTHER -> [raised |-> FALSE, delay |-> RETRY_BACKOFF * attempt]

\* `except Exception`: sleep(RETRY_BACKOFF * attempt)
YandexExcept(attempt) == YandexSleep(RETRY_BACKOFF * attempt)

query_yandex_attempt(response, attempt) ==
  IF response.status = NetworkError THEN YandexExcept(attempt)
  ELSE IF response.status = 200 THEN
    IF response.body.kind = "empty" THEN YandexReturn(EmptyDict)
    ELSE LET parsed == parse_yandex_components(response.body)
             unpacked == UnpackPair(parsed.value)
             tagged == TagComponents(unpacked, parsed.value, "Yandex")
         IN IF parsed.raised \/ unpacked.raised \/ tagged.raised
            THEN YandexExcept(attempt)
            ELSE YandexReturn(tagged.value)
  ELSE IF response.status = 429 THEN
    LET d == RetryDelay(response.retry_after, attempt)
    IN IF d.raised THEN YandexExcept(attempt) ELSE YandexSleep(d.delay)
  ELSE YandexReturn(EmptyDict)

\* ------------------------------------------------------------------------
\* scripts/api/geocode.py : candidates, provider chain, merge
\* ------------------------------------------------------------------------

\* a row of the table handed to the Geocoder: the two texts, the status
\* ("absent" when the table has no Status column) and the component columns
Row(address, translated, status, comps) ==
  [Address |-> address, Translated |-> translated, Status |-> status,
   comps |-> comps]

\* [address for s in (row[ADDRESS], row[TRANSLATED]) if (address := str(s).strip())]
address_candidates(row) ==
  LET native == Strip(StrOf(row.Address))
      translated == Strip(StrOf(row.Translated))
  IN (IF native # <<>> THEN <<native>> ELSE <<>>)
       \o (IF translated # <<>> THEN <<translated>> ELSE <<>>)

GEOCODERS == <<"Yandex", "Nominatim", "Azure">>

Reversed(seq) == [k \in 1..Len(seq) |-> seq[Len(seq) + 1 - k]]

GEOCODERS_REVERSED == Reversed(GEOCODERS)

\* geocoders = GEOCODERS if is_non_english_string(address) else GEOCODERS_REVERSED
ProviderChain(address) ==
  IF is_non_english_string(address) THEN GEOCODERS ELSE GEOCODERS_REVERSED

\* the key test inverted: `if key in results`
MergeResponse_KnownKeysOnly(results, response) ==
  [k \in DOMAIN results |->
     IF k \in DOMAIN response THEN response[k] ELSE results[k]]

\* for key, value in response.items(): if key not in results: results[key] = value
MergeResponse(results, response) ==
  [k \in (DOMAIN results) \cup (DOMAIN response) |->
     IF k \in DOMAIN results THEN results[k] ELSE response[k]]

\* for key, value in components.items(): row[key] = value
AssignComponents(comps, components) ==
  [k \in (DOMAIN comps) \cup (DOMAIN components) |->
     IF k \in DOMAIN components THEN components[k] ELSE comps[k]]

\* the status test dropped
AlreadyGeocoded_NeverSkips(row) == FALSE

\* row.get(STATUS_COLUMN, 'Pending') == 'OK'
AlreadyGeocoded(row) == row.Status = "OK"

\* `[native_address, translated] = address_candidates(row)` raises
\* ValueError unless the list has exactly two entries
UnpackCandidates(cands) == Len(cands) = 2

\* ------------------------------------------------------------------------
\* State
\* ------------------------------------------------------------------------

VARIABLES
  df,        \* the table handed to geocode_dataframe
  tasks,     \* one geocode_row coroutine per row of df
  gathered,  \* what `await gather(*tasks)` has delivered to the caller
  training,  \* the raw training dataset: the Address column, row by row
  testing,   \* the raw testing dataset
  files,     \* the artifacts on disk: translated, geocoded, addresses
  env,       \* the switches ALWAYS_TRANSLATE and ALWAYS_GEOCODE
  stage,     \* how far process_address_mapping has come in this run
  table,     \* unique_addresses, the table process_address_mapping builds
  run,       \* the number of runs started
  persisted, \* the geocoded artifact as the Geocoder stage found it
  queried,   \* the addresses the Geocoder stage of this run sent requests for
  audit,     \* how this run was entered, the artifacts it found, its requests
  call       \* one call of a function on its own: its inputs and what it gave

geoVars == <<df, tasks, gathered>>
pipeVars == <<training, testing, files, env, stage, table, run, persisted,
             queried, audit>>
fnVars == <<call>>
vars == <<df, tasks, gathered, training, testing, files, env, stage, table,
          run, persisted, queried, audit, call>>

\* no function is called on its own
NoCall == [fn |-> "none"]

\* Input texts: empty, blank, Latin (lower / upper case, padded),
\* Armenian, Armenian with a delimiter marker
AddressTexts == {<<>>, <<" ">>, <<"a">>, <<"hy">>, <<"hy", "dl">>}
TranslatedTexts == {<<>>, <<"a">>, <<"b", " ">>}

\* components a row geocoded by an earlier run already carries
PriorComponents ==
  [k \in {STREET, API} |-> IF k = STREET THEN "Tumanyan Street" ELSE "Nominatim"]

RowInputs ==
  {Row(a, t, st, IF st = "OK" THEN PriorComponents ELSE EmptyDict) :
     a \in AddressTexts, t \in TranslatedTexts, st \in {"Pending", "OK", "FAILED"}}

NoWait == [k |-> 0, status |-> 0, retry_after |-> NoHeader, delay |-> 0]

NoneReturned == [c \in {} |-> EmptyDict]

\* a coroutine object created by `geocode_row(row, session)`, not yet run
NewTask(row) ==
  [pc |-> "start", row |-> row, cands |-> <<>>, ci |-> 0, pi |-> 0,
   attempt |-> 0, yreq |-> 0, results |-> EmptyDict,
   returned |-> NoneReturned, log |-> <<>>, wait |-> NoWait]

Pending == [state |-> "pending", table |-> <<>>]

\* an artifact that does not exist / a table of rows read from or written to it
NoFile == [exists |-> FALSE, rows |-> <<>>]
File(rows) == [exists |-> TRUE, rows |-> rows]

\* `indexed`: the two raw files carry the Index column save_index writes
NoFiles ==
  [translated |-> NoFile, geocoded |-> NoFile, addresses |-> NoFile,
   indexed |-> FALSE]

\* no run has been started
NoAudit ==
  [entry |-> "none", before |-> NoFiles, batches |-> 0, texts |-> {},
   prev |-> [entry |-> "none", stage |-> "idle"]]

\* no pipeline run under way, no artifact on disk
PipelineIdle ==
  /\ training = <<>>
  /\ testing = <<>>
  /\ files = NoFiles
  /\ env = [ALWAYS_TRANSLATE |-> FALSE, ALWAYS_GEOCODE |-> FALSE]
  /\ stage = "idle"
  /\ table = <<>>
  /\ run = 0
  /\ persisted = NoFile
  /\ queried = {}
  /\ audit = NoAudit

Rows == 1..Len(tasks)

\* ------------------------------------------------------------------------
\* geocode_row, from one suspension point to the next
\* ------------------------------------------------------------------------

CurrentCandidate(t) == t.cands[t.ci]
CurrentProvider(t) == ProviderChain(CurrentCandidate(t))[t.pi]

\* the request of the current provider for the current candidate is sent
Sent(t) ==
  [t EXCEPT !.log = Append(@, [provider |-> CurrentProvider(t),
                               text |-> CurrentCandidate(t), ci |-> t.ci])]

\* try_geocoders_on_row for candidate number n starts: results = {}
StartCandidate(t, n) ==
  [t EXCEPT !.ci = n, !.pi = 1, !.attempt = 1, !.results = EmptyDict,
            !.pc = "query"]

\* The current provider has returned `ret`: merge it; go on with the next
\* provider of the chain; after the last one try_geocoders_on_row returns
\* and geocode_row marks the row OK, takes the next candidate or marks the
\* row FAILED.
ProviderReturned(t, ret) ==
  LET merged == IF Truthy(ret) THEN MergeResponse(t.results, ret) ELSE t.results
      noted == [t EXCEPT !.results = merged,
                         !.returned = DictSet(@, <<t.ci, CurrentProvider(t)>>, ret)]
  IN IF t.pi < Len(ProviderChain(CurrentCandidate(t)))
     THEN [noted EXCEPT !.pi = @ + 1, !.attempt = 1]
     ELSE IF Truthy(merged)
     THEN [noted EXCEPT !.pc = "done",
                        !.row = Row(t.row.Address, t.row.Translated, "OK",
                                    AssignComponents(t.row.comps, merged))]
     ELSE IF t.ci < Len(t.cands)
     THEN StartCandidate(noted, t.ci + 1)
     ELSE [noted EXCEPT !.pc = "done", !.row.Status = "FAILED"]

\* geocode_row up to its first request
StartTask(t) ==
  LET cands == address_candidates(t.row)
  IN IF AlreadyGeocoded(t.row) THEN [t EXCEPT !.pc = "done"]
     ELSE IF ~UnpackCandidates(cands) THEN [t EXCEPT !.pc = "raised"]
     ELSE StartCandidate([t EXCEPT !.cands = cands], 1)

NominatimStep(t, response) ==
  ProviderReturned(Sent(t), query_nominatim(response))

AzureStep(t, response) ==
  ProviderReturned(Sent(t), query_azure(response))

\* one request of the retry loop of query_yandex and the handling of its
\* response, the sleep included; `wait` notes the sleep that precedes the
\* next attempt, `yreq` counts the requests of the call
YandexStep(t, response) ==
  LET out == query_yandex_attempt(response, t.attempt)
      sent == [Sent(t) EXCEPT !.yreq = IF t.attempt = 1 THEN 1 ELSE @ + 1]
      slept == [sent EXCEPT !.wait = [k |-> t.attempt, status |-> response.status,
                                      retry_after |-> response.retry_after,
                                      delay |-> out.delay]]
  IN IF out.done THEN ProviderReturned([sent EXCEPT !.wait = NoWait], out.value)
     ELSE IF t.attempt < MAX_RETRIES THEN [slept EXCEPT !.attempt = @ + 1]
     ELSE ProviderReturned([sent EXCEPT !.wait = NoWait], EmptyDict)

GeocodeRowStart(i) ==
  /\ tasks[i].pc = "start"
  /\ tasks' = [tasks EXCEPT ![i] = StartTask(tasks[i])]
  /\ UNCHANGED <<df, gathered>>
  /\ UNCHANGED pipeVars
  /\ UNCHANGED fnVars

QueryNominatim(i) ==
  /\ tasks[i].pc = "query"
  /\ CurrentProvider(tasks[i]) = "Nominatim"
  /\ \E response \in NominatimResponses :
       tasks' = [tasks EXCEPT ![i] = NominatimStep(tasks[i], response)]
  /\ UNCHANGED <<df, gathered>>
  /\ UNCHANGED pipeVars
  /\ UNCHANGED fnVars

QueryAzure(i) ==
  /\ tasks[i].pc = "query"
  /\ CurrentProvider(tasks[i]) = "Azure"
  /\ \E response \in AzureResponses :
       tasks' = [tasks EXCEPT ![i] = AzureStep(tasks[i], response)]
  /\ UNCHANGED <<df, gathered>>
  /\ UNCHANGED pipeVars
  /\ UNCHANGED fnVars

QueryYandex(i) ==
  /\ tasks[i].pc = "query"
  /\ CurrentProvider(tasks[i]) = "Yandex"
  /\ \E response \in YandexResponses :
       tasks' = [tasks EXCEPT ![i] = YandexStep(tasks[i], response)]
  /\ UNCHANGED <<df, gathered>>
  /\ UNCHANGED pipeVars
  /\ UNCHANGED fnVars

\* ------------------------------------------------------------------------
\* geocode_dataframe
\* ------------------------------------------------------------------------

\* the dicts taken in another order than that of the coroutines
GatherReturn_Reversed ==
  /\ gathered.state = "pending"
  /\ \A i \in Rows : tasks[i].pc = "done"
  /\ gathered' = [state |-> "returned",
                  table |-> [i \in Rows |-> tasks[Len(tasks) + 1 - i].row]]
  /\ UNCHANGED <<df, tasks>>
  /\ UNCHANGED pipeVars
  /\ UNCHANGED fnVars

\* every coroutine has returned: pd.DataFrame(dicts), in row order
GatherReturn ==
  /\ gathered.state = "pending"
  /\ \A i \in Rows : tasks[i].pc = "done"
  /\ gathered' = [state |-> "returned", table |-> [i \in Rows |-> tasks[i].row]]
  /\ UNCHANGED <<df, tasks>>
  /\ UNCHANGED pipeVars
  /\ UNCHANGED fnVars

\* a coroutine has raised: the exception leaves gather and geocode_dataframe,
\* asyncio.run cancels the coroutines still running
GatherRaise ==
  /\ gathered.state = "pending"
  /\ \E i \in Rows : tasks[i].pc = "raised"
  /\ gathered' = [state |-> "raised", table |-> <<>>]
  /\ tasks' = [i \in Rows |->
                 IF tasks[i].pc \in {"start", "query"}
                 THEN [tasks[i] EXCEPT !.pc = "cancelled"] ELSE tasks[i]]
  /\ UNCHANGED df
  /\ UNCHANGED pipeVars
  /\ UNCHANGED fnVars

Next ==
  \/ \E i \in Rows : GeocodeRowStart(i)
  \/ \E i \in Rows : QueryNominatim(i)
  \/ \E i \in Rows : QueryYandex(i)
  \/ \E i \in Rows : QueryAzure(i)
  \/ GatherReturn
  \/ GatherRaise

\* geocode_dataframe called with a table of one row
Init ==
  /\ df \in {<<r>> : r \in RowInputs}
  /\ tasks = [i \in 1..Len(df) |-> NewTask(df[i])]
  /\ gathered = Pending
  /\ PipelineIdle
  /\ call = NoCall

Spec == Init /\ [][Next]_vars

\* geocode_dataframe called with a table of up to MaxRows rows: an
\* Armenian address with its translation, a Latin address without a
\* translation, a blank address, and a row an earlier run geocoded
MaxRows == 2

BatchRowInputs ==
  { Row(<<"hy">>, <<"a">>, "Pending", EmptyDict),
    Row(<<"a">>, <<>>, "Pending", EmptyDict),
    Row(<<" ">>, <<" ">>, "Pending", EmptyDict),
    Row(<<"a">>, <<"a">>, "OK", PriorComponents) }

RECURSIVE Tables(_, _)
Tables(rows, n) ==
  IF n = 0 THEN {<<>>}
  ELSE LET shorter == Tables(rows, n - 1)
       IN shorter \cup {Append(t, r) : t \in {u \in shorter : Len(u) = n - 1},
                                       r \in rows}

InitBatch ==
  /\ df \in {t \in Tables(BatchRowInputs, MaxRows) : Len(t) >= 1}
  /\ tasks = [i \in 1..Len(df) |-> NewTask(df[i])]
  /\ gathered = Pending
  /\ PipelineIdle
  /\ call = NoCall

SpecBatch == InitBatch /\ [][Next]_vars

\* ------------------------------------------------------------------------
\* scripts/process.py : merge_on_unique
\* ------------------------------------------------------------------------

Range(seq) == {seq[k] : k \in 1..Len(seq)}

\* Series.dropna()
RECURSIVE DropNa(_)
DropNa(seq) ==
  IF seq = <<>> THEN <<>>
  ELSE (IF Head(seq) = NaN THEN <<>> ELSE <<Head(seq)>>) \o DropNa(Tail(seq))

\* Series.drop_duplicates(): the first occurrence of every value is kept
RECURSIVE DropDuplicates(_)
DropDuplicates(seq) ==
  IF seq = <<>> THEN <<>>
  ELSE LET front == DropDuplicates(SubSeq(seq, 1, Len(seq) - 1))
           last == seq[Len(seq)]
       IN IF last \in Range(front) THEN front ELSE Append(front, last)

\* pd.concat(series, ignore_index=True).dropna().drop_duplicates()
merge_on_unique(first, second) == DropDuplicates(DropNa(first \o second))

\* ------------------------------------------------------------------------
\* scripts/api/translate.py
\* ------------------------------------------------------------------------

MAX_SEGMENTS == 128
MAX_BYTES == 70000

\* the UTF-8 size of a character: Latin 1, Armenian 2, the delimiter 3
CharBytes(c) ==
  CASE c \in {"hy", "HY"} -> 2
    [] c = "dl" -> 3
    [] c = "hy.." -> MAX_BYTES
    [] OTHER -> 1

RECURSIVE Utf8Len(_)
Utf8Len(s) == IF s = <<>> THEN 0 ELSE CharBytes(Head(s)) + Utf8Len(Tail(s))

\* len(json.dumps(s, ensure_ascii=False).encode('utf-8')): the text in quotes
JsonBytes(s) == Utf8Len(s) + 2

\* the generator body with the test of the byte limit left out
RECURSIVE Chunk_SegmentsOnly(_, _, _, _, _)
Chunk_SegmentsOnly(strings, batch, batch_size, max_segments, max_bytes) ==
  IF strings = <<>> THEN (IF batch # <<>> THEN <<batch>> ELSE <<>>)
  ELSE LET s == Head(strings)
       IN IF Len(batch) >= max_segments
          THEN <<batch>> \o Chunk_SegmentsOnly(Tail(strings), <<s>>, 0,
                                               max_segments, max_bytes)
          ELSE Chunk_SegmentsOnly(Tail(strings), Append(batch, s), 0,
                                  max_segments, max_bytes)

\* the generator body, with `batch` and `batch_size` as it runs
RECURSIVE Chunk(_, _, _, _, _)
Chunk(strings, batch, batch_size, max_segments, max_bytes) ==
  IF strings = <<>> THEN (IF batch # <<>> THEN <<batch>> ELSE <<>>)
  ELSE LET s == Head(strings)
           s_bytes == JsonBytes(s)
       IN IF s_bytes > max_bytes
          THEN <<(<<s>>)>> \o Chunk(Tail(strings), batch, batch_size,
                                    max_segments, max_bytes)
          ELSE IF Len(batch) >= max_segments \/ batch_size + s_bytes > max_bytes
          THEN <<batch>> \o Chunk(Tail(strings), <<s>>, s_bytes,
                                  max_segments, max_bytes)
          ELSE Chunk(Tail(strings), Append(batch, s), batch_size + s_bytes,
                     max_segments, max_bytes)

chunk_segments_and_bytes(strings, max_segments, max_bytes) ==
  Chunk(strings, <<>>, 0, max_segments, max_bytes)

\* what the translation service answers for a text: Armenian letters are
\* rendered in Latin ones
TranslatedText(s) ==
  [k \in 1..Len(s) |->
     CASE s[k] = "hy" -> "a"
       [] s[k] = "HY" -> "A"
       [] s[k] = "hy.." -> "a.."
       [] OTHER -> s[k]]

\* f"[TRANSLATION_FAILED: {str(e)}]"
TRANSLATION_FAILED == <<"[", "TRANSLATION_FAILED", "]">>

\* a request whose failure is not turned into markers
batch_translate_NoMarker(strings, ok) ==
  [k \in 1..Len(strings) |-> TranslatedText(strings[k])]

\* one request for a batch; `ok` tells whether the service answered
batch_translate(strings, ok) ==
  [k \in 1..Len(strings) |->
     IF ok THEN TranslatedText(strings[k]) ELSE TRANSLATION_FAILED]

\* mapping.update(zip(batch, translated)), batch after batch
RECURSIVE TranslationMapping(_, _, _, _)
TranslationMapping(batches, outcomes, k, mapping) ==
  IF k > Len(batches) THEN mapping
  ELSE LET batch == batches[k]
           translated == batch_translate(batch, outcomes[k])
           updated == [s \in (DOMAIN mapping) \cup Range(batch) |->
                         IF s \in Range(batch)
                         THEN translated[CHOOSE j \in 1..Len(batch) :
                                /\ batch[j] = s
                                /\ \A l \in (j + 1)..Len(batch) : batch[l] # s]
                         ELSE mapping[s]]
       IN TranslationMapping(batches, outcomes, k + 1, updated)

\* candidates = [s for s in series if pd.notna(s) and is_non_english_string(s)]
TranslationCandidates(series) ==
  SelectSeq(series, LAMBDA s : s # NaN /\ is_non_english_string(s))

TranslationBatches(series) ==
  chunk_segments_and_bytes(TranslationCandidates(series), MAX_SEGMENTS, MAX_BYTES)

\* series.map(lambda s: mapping.get(s, s) if pd.notna(s) else s)
translate_series(series, outcomes) ==
  LET mapping == TranslationMapping(TranslationBatches(series), outcomes, 1,
                                    [s \in {} |-> <<>>])
  IN [k \in 1..Len(series) |->
        IF series[k] # NaN /\ series[k] \in DOMAIN mapping
        THEN mapping[series[k]] ELSE series[k]]

\* a text cell written by to_csv and read back by read_csv: the empty text
\* and the missing value both come back missing
CsvText(s) == IF s = <<>> THEN NaN ELSE s

\* pd.read_csv(TRANSLATIONS): the columns Address and Translated
ReadTranslations(file) ==
  [i \in 1..Len(file.rows) |->
     Row(CsvText(file.rows[i].Address), CsvText(file.rows[i].Translated),
         "absent", EmptyDict)]

\* ------------------------------------------------------------------------
\* scripts/api/geocode.py : load_geocoded_components
\* ------------------------------------------------------------------------

\* a cell without a value (NaN) in a component column
NA == "<NA>"

\* row[col] / the columns of a table
Cell(row, col) == IF col \in DOMAIN row.comps THEN row.comps[col] ELSE NA
TableColumns(tbl) == UNION {DOMAIN tbl[i].comps : i \in 1..Len(tbl)}

\* the Nominatim answers of a run of the whole pipeline: every component,
\* a road with a quarter
CompleteBody ==
  [kind |-> "list", coords |-> "ok",
   address |-> [l \in {"road", "neighbourhood", "village", "municipality",
                       "state", "country"} |->
                  CASE l = "road" -> "abovyan st 12"
                    [] l = "neighbourhood" -> "Kond"
                    [] l = "village" -> "Aramus"
                    [] l = "municipality" -> "Abovyan"
                    [] l = "state" -> "Kotayk"
                    [] OTHER -> "Armenia"]]

QuarterBody ==
  [kind |-> "list", coords |-> "ok",
   address |-> [l \in {"road", "neighbourhood"} |->
                  IF l = "road" THEN "Abovyan Street" ELSE "Kond"]]

\* what the three providers answer for the requests of one row
World(nominatim, yandex, azure) ==
  [Nominatim |-> nominatim, Yandex |-> yandex, Azure |-> azure]

Worlds ==
  { World(Response(200, CompleteBody, NoHeader),
          Response(429, NoBody, NoHeader),
          Response(500, NoBody, NoHeader)),
    World(Response(200, QuarterBody, NoHeader),
          Response(500, NoBody, NoHeader),
          Response(NetworkError, NoBody, NoHeader)),
    World(Response(500, NoBody, NoHeader),
          Response(429, NoBody, SecondsHeader(RetryAfterSeconds)),
          Response(NetworkError, NoBody, NoHeader)) }

\* geocode_row run to its end against the answers of `world`
RECURSIVE RunTask(_, _)
RunTask(t, world) ==
  IF t.pc = "start" THEN RunTask(StartTask(t), world)
  ELSE IF t.pc # "query" THEN t
  ELSE IF CurrentProvider(t) = "Nominatim"
  THEN RunTask(NominatimStep(t, world.Nominatim), world)
  ELSE IF CurrentProvider(t) = "Yandex"
  THEN RunTask(YandexStep(t, world.Yandex), world)
  ELSE RunTask(AzureStep(t, world.Azure), world)

\* asyncio.run(geocode_dataframe(df)): every coroutine run to its end
GeocodedTasks(tbl, worlds) ==
  [i \in 1..Len(tbl) |-> RunTask(NewTask(tbl[i]), worlds[i])]

\* the label to_csv writes in front of row i (the index column, which
\* read_csv returns as the column "Unnamed: 0")
IndexLabel(i) == ToString(i - 1)

\* pd.read_csv(GEOCODED)
ReadGeocoded(file) ==
  [i \in 1..Len(file.rows) |->
     Row(CsvText(file.rows[i].Address), CsvText(file.rows[i].Translated),
         file.rows[i].Status,
         DictSet(file.rows[i].comps, "Unnamed: 0", IndexLabel(i)))]

\* ------------------------------------------------------------------------
\* scripts/address/normalize.py
\* ------------------------------------------------------------------------

UpperChar(c) ==
  CASE c = "a" -> "A"
    [] c = "b" -> "B"
    [] c = "hy" -> "HY"
    [] OTHER -> c

\* string.split(): the maximal runs without white space
RECURSIVE Words(_)
Words(s) ==
  LET t == LStrip(s)
  IN IF t = <<>> THEN <<>>
     ELSE LET n == IF \E k \in 1..Len(t) : t[k] = " "
                   THEN CHOOSE k \in 1..Len(t) :
                          t[k] = " " /\ \A j \in 1..(k - 1) : t[j] # " "
                   ELSE Len(t) + 1
          IN <<SubSeq(t, 1, n - 1)>> \o Words(SubSeq(t, n, Len(t)))

\* word.capitalize()
Capitalize(w) ==
  [k \in 1..Len(w) |-> IF k = 1 THEN UpperChar(w[k]) ELSE LowerChar(w[k])]

\* ' '.join(words)
RECURSIVE Join(_)
Join(words) ==
  IF words = <<>> THEN <<>>
  ELSE IF Len(words) = 1 THEN words[1]
  ELSE words[1] \o <<" ">> \o Join(Tail(words))

apply_title_casing(s) ==
  Join([k \in 1..Len(Words(s)) |-> Capitalize(Words(s)[k])])

remove_ascii(s) == IF is_non_english_string(s) THEN <<>> ELSE s

\* normalize_address_parts of a text of the Translated column; the texts
\* of the model carry no digits and no abbreviations
normalize_address_parts(s) ==
  IF s = NaN THEN <<>>
  ELSE IF remove_ascii(s) = <<>> THEN <<>>
  ELSE apply_title_casing(s)

\* normalize_address_parts of the component values of the model
NormalForms ==
  [v \in {"abovyan st 12"} |-> "Abovyan Street 12"]

NormalizedCell(v) ==
  IF v = NA THEN ""
  ELSE IF v \in DOMAIN NormalForms THEN NormalForms[v] ELSE v

\* ------------------------------------------------------------------------
\* scripts/address/separate.py
\* ------------------------------------------------------------------------

\* what a stage of process_address_mapping leaves: the table, or an
\* exception that ends the run
StageDone(tbl) == [raised |-> FALSE, table |-> tbl]
StageRaised == [raised |-> TRUE, table |-> <<>>]

\* a text as the value of a component cell
RECURSIVE Spell(_)
Spell(s) == IF s = <<>> THEN "" ELSE Head(s) \o Spell(Tail(s))

GetStripped_Empty(row, cols, col) == ""

\* str(row.get(col, "")).strip(): "" for a column the table lacks, "nan"
\* for a cell without a value
GetStripped(row, cols, col) ==
  IF col \notin cols THEN ""
  ELSE IF Cell(row, col) = NA THEN "nan" ELSE Cell(row, col)

Contains(s, c) == \E k \in 1..Len(s) : s[k] = c

\* address.split(delim, maxsplit=1)
SplitOnce(s, c) ==
  LET n == CHOOSE k \in 1..Len(s) : s[k] = c /\ \A j \in 1..(k - 1) : s[j] # c
  IN <<SubSeq(s, 1, n - 1), SubSeq(s, n + 1, Len(s))>>

\* p.strip() if len(p.strip()) >= 3 else ""
SplitPart(p) == IF Len(Strip(p)) >= 3 THEN Spell(Strip(p)) ELSE ""

\* the parts for [STREET, TOWN]: split on the first of "," and the
\* delimiter marker the text holds, the order reversed for the marker
DelimiterParts(address) ==
  IF Contains(address, ",")
  THEN <<SplitPart(SplitOnce(address, ",")[1]), SplitPart(SplitOnce(address, ",")[2])>>
  ELSE IF Contains(address, "dl")
  THEN <<SplitPart(SplitOnce(address, "dl")[2]), SplitPart(SplitOnce(address, "dl")[1])>>
  ELSE <<"", "">>

\* the result for one row: the cells of STREET and TOWN, or None
separate_on_hardcoded_delimiters(row, cols) ==
  LET street == GetStripped(row, cols, STREET)
      town == GetStripped(row, cols, TOWN)
      parts == DelimiterParts(row.Translated)
  IN IF street # "" /\ town # ""
     THEN [none |-> FALSE, street |-> Cell(row, STREET), town |-> Cell(row, TOWN)]
     ELSE IF row.Translated = <<>>
     THEN [none |-> TRUE, street |-> NA, town |-> NA]
     ELSE [none |-> FALSE,
           street |-> IF street # "" THEN Cell(row, STREET) ELSE parts[1],
           town |-> IF town # "" THEN Cell(row, TOWN) ELSE parts[2]]

\* separate_regex_match for the component values of the model, none of
\* which starts or ends with a blank: the building pattern finds the last
\* house number of a street, the block pattern a block with its prefix;
\* the match is cut out of the value and both parts are stripped
PatternMatch(pattern, value) ==
  CASE pattern = BUILDING /\ value = "Abovyan Street 12" ->
         [trimmed |-> "Abovyan Street", matched |-> "12"]
    [] pattern = BUILDING /\ value = "Abovyan Street 14" ->
         [trimmed |-> "Abovyan Street", matched |-> "14"]
    [] pattern = BUILDING /\ value = "August 23 Street" ->
         [trimmed |-> "August  Street", matched |-> "23"]
    [] pattern = BUILDING /\ value = "26 Commissars Street" ->
         [trimmed |-> "Commissars Street", matched |-> "26"]
    [] pattern = BLOCK /\ value = "Ani Block" ->
         [trimmed |-> "", matched |-> "Ani Block"]
    [] OTHER -> [trimmed |-> value, matched |-> ""]

NUMBERED_STREETS ==
  <<[name |-> "August", expanded |-> "August 23 Street"],
    [name |-> "Commissars", expanded |-> "26 Commissars Street"]>>

\* `name in trimmed` for the component values of the model
NameIn(name, trimmed) ==
  \/ name = "August" /\ trimmed \in {"August 23 Street", "August  Street"}
  \/ name = "Commissars"
       /\ trimmed \in {"26 Commissars Street", "Commissars Street"}

\* the loop over NUMBERED_STREETS from entry number k on
RECURSIVE NumberedStreet(_, _, _)
NumberedStreet(found, assign_column, k) ==
  IF k > Len(NUMBERED_STREETS) THEN found
  ELSE NumberedStreet(
         IF assign_column = BUILDING /\ NameIn(NUMBERED_STREETS[k].name, found.trimmed)
         THEN [trimmed |-> NUMBERED_STREETS[k].expanded, matched |-> ""]
         ELSE found,
         assign_column, k + 1)

\* row[source_column]: a component cell, or the Translated text
SourceCell(row, source_column) ==
  IF source_column = TRANSLATED
  THEN (IF row.Translated = NaN THEN NA ELSE Spell(row.Translated))
  ELSE Cell(row, source_column)

\* assign_regex_match for one row.  A source cell without a value reads
\* row[assign_column]; when the table lacks that column the KeyError is
\* caught by a handler that itself raises (it logs the unbound `value`).
assign_regex_match(row, cols, pattern, source_column, assign_column, keep_original) ==
  LET value == SourceCell(row, source_column)
      separated == PatternMatch(pattern, value)
      existing_assign == GetStripped(row, cols, assign_column)
      found == NumberedStreet(
                 [trimmed |-> separated.trimmed,
                  matched |-> IF existing_assign # "" THEN existing_assign
                              ELSE separated.matched],
                 assign_column, 1)
  IN IF value = NA
     THEN IF assign_column \notin cols
          THEN [raised |-> TRUE, source |-> NA, assign |-> NA]
          ELSE [raised |-> FALSE, source |-> NA,
                assign |-> Cell(row, assign_column)]
     ELSE [raised |-> FALSE,
           source |-> IF keep_original THEN value ELSE found.trimmed,
           assign |-> found.matched]

\* df[[source, assign]] = df.apply(lambda row: assign_regex_match(...), axis=1)
RegexPass(tbl, pattern, source_column, assign_column) ==
  LET cols == TableColumns(tbl)
      out == [i \in 1..Len(tbl) |->
                assign_regex_match(tbl[i], cols, pattern, source_column,
                                   assign_column, FALSE)]
  IN IF \E i \in 1..Len(tbl) : out[i].raised THEN StageRaised
     ELSE StageDone([i \in 1..Len(tbl) |->
            [tbl[i] EXCEPT !.comps =
               DictSet(DictSet(@, source_column, out[i].source),
                       assign_column, out[i].assign)]])

\* STREET_COMPONENTS_RGX, in the order of the dict
STREET_COMPONENTS_RGX == <<BLOCK, LANE, BUILDING, NEIGHBOURHOOD, STREET_NUMBER>>

RECURSIVE StreetPasses(_, _)
StreetPasses(done, k) ==
  IF done.raised \/ k > Len(STREET_COMPONENTS_RGX) THEN done
  ELSE StreetPasses(RegexPass(done.table, STREET_COMPONENTS_RGX[k], STREET,
                              STREET_COMPONENTS_RGX[k]), k + 1)

\* the pass over the Translated text with keep_original: the text keeps
\* its value, the building cell takes what the pass assigns
TranslatedPass(tbl) ==
  LET cols == TableColumns(tbl)
      out == [i \in 1..Len(tbl) |->
                assign_regex_match(tbl[i], cols, BUILDING, TRANSLATED, BUILDING,
                                   TRUE)]
  IN IF \E i \in 1..Len(tbl) : out[i].raised THEN StageRaised
     ELSE StageDone([i \in 1..Len(tbl) |->
            [tbl[i] EXCEPT !.comps = DictSet(@, BUILDING, out[i].assign)]])

\* the loop of fix_generic_streets from column number k on
RECURSIVE FixLoop(_, _, _, _)
FixLoop(row, cols, stripped, k) ==
  LET places == <<TOWN, VILLAGE, ADMINISTRATIVE_UNIT, PROVINCE, COUNTRY>>
      col == places[k]
      column_value == Cell(row, col)
  IN IF k > Len(places) THEN [raised |-> FALSE, row |-> row]
     ELSE IF col \notin cols THEN [raised |-> TRUE, row |-> row]
     ELSE IF column_value = NA \/ column_value = ""
     THEN FixLoop(row, cols, stripped, k + 1)
     ELSE IF stripped = column_value
     THEN [raised |-> FALSE, row |-> [row EXCEPT !.comps = DictSet(@, STREET, NA)]]
     ELSE FixLoop([row EXCEPT !.comps =
                     DictSet(@, STREET,
                             IF stripped = "Street"
                             THEN column_value \o " " \o stripped
                             ELSE stripped)],
                  cols, stripped, k + 1)

fix_generic_streets(row, cols) ==
  IF Cell(row, STREET) = NA \/ Cell(row, STREET) = ""
  THEN [raised |-> FALSE, row |-> row]
  ELSE FixLoop(row, cols, Cell(row, STREET), 1)

separate_into_unique_components(tbl) ==
  LET streets == StreetPasses(StageDone(tbl), 1)
      blocks == IF streets.raised THEN StageRaised
                ELSE RegexPass(streets.table, BLOCK, NEIGHBOURHOOD, BLOCK)
      buildings == IF blocks.raised THEN StageRaised
                   ELSE TranslatedPass(blocks.table)
      cols == TableColumns(buildings.table)
      fixed == [i \in 1..Len(buildings.table) |->
                  fix_generic_streets(buildings.table[i], cols)]
  IN IF buildings.raised THEN StageRaised
     ELSE IF \E i \in 1..Len(buildings.table) : fixed[i].raised THEN StageRaised
     ELSE StageDone([i \in 1..Len(buildings.table) |-> fixed[i].row])

\* ------------------------------------------------------------------------
\* scripts/address/lookup.py
\* ------------------------------------------------------------------------

\* the reference file armenian_region.json: absent, or an object that
\* gives for a province either the list of its districts or, municipality
\* by municipality, its localities; every name is the key of one entry
NoReference == [exists |-> FALSE, json |-> [p \in {} |-> <<>>]]

ReferenceFile ==
  [exists |-> TRUE,
   json |-> [p \in {"Yerevan", "Kotayk"} |->
               IF p = "Yerevan"
               THEN [list |-> TRUE, districts |-> {"Kentron", "Arabkir"},
                     municipalities |-> [m \in {} |-> {}]]
               ELSE [list |-> FALSE, districts |-> {},
                     municipalities |->
                       [m \in {"Abovyan"} |-> {"Abovyan", "Aramus"}]]]]

\* (provinces, administrative_units_mapping, locality_mapping); empty when
\* the file is absent
retrieve_armenian_regional_structure(reference) ==
  LET json == reference.json
      units == UNION {IF json[p].list THEN json[p].districts
                      ELSE DOMAIN json[p].municipalities : p \in DOMAIN json}
      localities == UNION {UNION {json[p].municipalities[m] :
                                    m \in DOMAIN json[p].municipalities} :
                             p \in DOMAIN json}
  IN IF ~reference.exists
     THEN [provinces |-> {}, administrative_units_mapping |-> [k \in {} |-> ""],
           locality_mapping |-> [k \in {} |-> ""]]
     ELSE [provinces |-> DOMAIN json,
           administrative_units_mapping |->
             [u \in units |->
                CHOOSE p \in DOMAIN json :
                  u \in (IF json[p].list THEN json[p].districts
                         ELSE DOMAIN json[p].municipalities)],
           locality_mapping |->
             [l \in localities |->
                CHOOSE m \in units :
                  \E p \in DOMAIN json :
                    /\ ~json[p].list
                    /\ m \in DOMAIN json[p].municipalities
                    /\ l \in json[p].municipalities[m]]]

FUZZY_MATCH_ACCURACY == 90

\* the score (WRatio, in whole percent) of a query against a choice, for
\* the names of the model: equal texts score 100, "Nork" is a part of "Nor
\* Nork", the names on "Stepanava" differ in their last letters; every
\* other pair scores 61 or less
Score(query, choice) ==
  CASE query = choice -> 100
    [] {query, choice} = {"Nor Nork", "Nork"} -> 90
    [] {query, choice} = {"Stepanavan", "Stepanavar"} -> 90
    [] {query, choice} = {"Stepanavan", "Stepanavank"} -> 95
    [] {query, choice} = {"Stepanavar", "Stepanavank"} -> 85
    [] OTHER -> 61

\* process.extractOne(query, choices, score_cutoff=...): the choices one of
\* which is returned, those of the best score among the scores that are
\* not below the cutoff; which of several is returned depends on the
\* iteration order of the set
extractOne(query, choices, score_cutoff) ==
  {c \in choices :
     /\ Score(query, c) >= score_cutoff
     /\ \A d \in choices : Score(query, d) <= Score(query, c)}

\* the values fuzzy_match can return: the first word of the title-cased
\* text without commas that is a choice, else the choice extractOne
\* returns for the whole text, else ""
fuzzy_match(s, choices) ==
  LET words == Words(apply_title_casing(SelectSeq(s, LAMBDA c : c # ",")))
      hits == {k \in 1..Len(words) : Spell(words[k]) \in choices}
      matches == extractOne(Spell(s), choices, FUZZY_MATCH_ACCURACY)
  IN IF hits # {}
     THEN {Spell(words[CHOOSE k \in hits : \A j \in hits : k <= j])}
     ELSE IF matches # {} THEN matches
     ELSE {""}

\* the value of a call that can return one value only
Only(values) == CHOOSE v \in values : TRUE

reverse_lookup_Missing(name, mapping) == ""

\* mapping.get(name, "")
reverse_lookup(name, mapping) ==
  IF name \in DOMAIN mapping THEN mapping[name] ELSE ""

separate_hardcoded_regional_labels(tbl, reference) ==
  LET region == retrieve_armenian_regional_structure(reference)
      Label(row) ==
        LET province == Only(fuzzy_match(row.Translated, region.provinces))
            unit == Only(fuzzy_match(row.Translated,
                                     DOMAIN region.administrative_units_mapping))
            town == IF province # "Yerevan"
                    THEN Only(fuzzy_match(row.Translated,
                                          DOMAIN region.locality_mapping))
                    ELSE ""
            province2 == IF province = ""
                         THEN reverse_lookup(unit, region.administrative_units_mapping)
                         ELSE province
            unit2 == IF unit = ""
                     THEN reverse_lookup(town, region.locality_mapping)
                     ELSE unit
        IN DictSet(DictSet(DictSet(row.comps, PROVINCE, province2),
                           ADMINISTRATIVE_UNIT, unit2), TOWN, town)
  IN [i \in 1..Len(tbl) |-> [tbl[i] EXCEPT !.comps = Label(tbl[i])]]

\* ------------------------------------------------------------------------
\* scripts/address/load.py
\* ------------------------------------------------------------------------

ADDRESS_COLUMNS ==
  <<BUILDING, STREET, STREET_NUMBER, TOWN, BLOCK, LANE, ADMINISTRATIVE_UNIT,
    NEIGHBOURHOOD, PROVINCE, COUNTRY>>

\* the prefixes of the row indices of the two datasets
TRAINING_INDEX_PREFIX == "TR"
TESTING_INDEX_PREFIX == "TE"

\* string_casts of a cell: stripped, a cell without a value becomes ""
string_casts(v) == IF v = NA THEN "" ELSE v

\* df[ADDRESS_INDEX] = [f"{fileindex}{i}" for i in range(len(df))]
save_index(dataset, fileindex) ==
  [i \in 1..Len(dataset) |-> [Address |-> dataset[i], Index |-> <<fileindex, i - 1>>]]

\* the key map_address_indices groups by: str.strip().str.lower()
GroupKey(s) == IF s = NaN THEN NaN ELSE Lower(Strip(s))

\* the indices of the rows of `combined` whose key is `key`, in row order
RECURSIVE IndicesOf(_, _)
IndicesOf(combined, key) ==
  IF combined = <<>> THEN <<>>
  ELSE (IF GroupKey(Head(combined).Address) = key
        THEN <<Head(combined).Index>> ELSE <<>>)
       \o IndicesOf(Tail(combined), key)

\* groupby(ADDRESS)[ADDRESS_INDEX].apply(list): one entry per key, the rows
\* without an address left out
map_address_indices(first, second) ==
  LET combined == save_index(first, TRAINING_INDEX_PREFIX)
                    \o save_index(second, TESTING_INDEX_PREFIX)
      keys == {GroupKey(combined[i].Address) : i \in 1..Len(combined)} \ {NaN}
  IN [key \in keys |-> IndicesOf(combined, key)]

\* the Index cell of a row of the merged table
NoIndex == [isna |-> TRUE, list |-> <<>>]
IndexList(list) == [isna |-> FALSE, list |-> list]

\* unique_addresses.merge(address_indices_map, on=ADDRESS, how="left")
MergeIndices(tbl, address_indices_map) ==
  [i \in 1..Len(tbl) |->
     [Address |-> tbl[i].Address, Translated |-> tbl[i].Translated,
      Status |-> tbl[i].Status, comps |-> tbl[i].comps,
      Index |-> IF tbl[i].Address \in DOMAIN address_indices_map
                THEN IndexList(address_indices_map[tbl[i].Address])
                ELSE NoIndex]]

\* ------------------------------------------------------------------------
\* process_address_mapping, stage by stage, over several runs
\* ------------------------------------------------------------------------

MaxRuns == 2
MaxRaw == 1

\* the address cells of a raw dataset: Latin, Latin in capitals with a
\* trailing blank, Armenian, blank, missing
RawTexts == {<<"a">>, <<"A", " ">>, <<"hy">>, <<" ">>, NaN}

Crashed ==
  /\ stage' = "crashed"
  /\ table' = <<>>

ALWAYS_REMAP == FALSE

\* the stages a run ends in
RunEnds == {"idle", "saved", "loaded", "crashed"}

\* what a starting run records: its entry point, the artifacts it finds
\* and how the run before it ended
NewAudit(entry) ==
  [entry |-> entry, before |-> files, batches |-> 0, texts |-> {},
   prev |-> [entry |-> audit.entry, stage |-> stage]]

\* pd.read_csv(ADDRESSES): an empty cell is read as a missing value
ReadAddresses(file) ==
  [i \in 1..Len(file.rows) |->
     [Address |-> CsvText(file.rows[i].Address),
      Translated |-> CsvText(file.rows[i].Translated),
      Status |-> file.rows[i].Status,
      comps |-> [c \in DOMAIN file.rows[i].comps |->
                   IF file.rows[i].comps[c] = "" THEN NA
                   ELSE file.rows[i].comps[c]],
      Index |-> file.rows[i].Index]]

\* the Index column is dropped, the index map is computed again from the
\* two datasets and joined on the stripped, lower-cased address
remap_address_row_indices(first, second, unique_addresses) ==
  MergeIndices([i \in 1..Len(unique_addresses) |->
                  [unique_addresses[i] EXCEPT !.Address = GroupKey(@)]],
               map_address_indices(first, second))

\* one row per element of the Index list; a row without a list is kept
RECURSIVE explode_addresses_on_index(_)
explode_addresses_on_index(tbl) ==
  IF tbl = <<>> THEN <<>>
  ELSE LET row == Head(tbl)
       IN (IF row.Index.isna \/ row.Index.list = <<>>
           THEN <<[row EXCEPT !.Index = NoIndex]>>
           ELSE [k \in 1..Len(row.Index.list) |->
                   [row EXCEPT !.Index = [isna |-> FALSE,
                                          label |-> row.Index.list[k]]]])
          \o explode_addresses_on_index(Tail(tbl))

NeedsRemap_Always(indexed) == TRUE

\* ADDRESS_INDEX not in training.columns or ADDRESS_INDEX not in
\* testing.columns or ALWAYS_REMAP
NeedsRemap(indexed) == ~indexed \/ ALWAYS_REMAP

\* load_address_mapping with the addresses artifact on disk: the table is
\* read, remapped when a dataset comes without the Index column, cast and
\* exploded; no stage of process_address_mapping runs
LoadAddressMapping ==
  /\ stage \in RunEnds
  /\ run < MaxRuns
  /\ files.addresses.exists
  /\ run' = run + 1
  /\ env' \in [{"ALWAYS_TRANSLATE", "ALWAYS_GEOCODE"} -> BOOLEAN]
  /\ audit' = NewAudit("load_address_mapping")
  /\ LET addresses == ReadAddresses(files.addresses)
         remap == NeedsRemap(files.indexed)
         mapped == IF remap
                   THEN remap_address_row_indices(training, testing, addresses)
                   ELSE addresses
     IN /\ files' = IF remap
                    THEN [files EXCEPT !.addresses = File(mapped),
                                       !.indexed = TRUE]
                    ELSE files
        /\ table' = explode_addresses_on_index(
                       [i \in 1..Len(mapped) |->
                          [mapped[i] EXCEPT !.comps =
                             [c \in DOMAIN @ |->
                                IF c \in Range(ADDRESS_COLUMNS)
                                THEN string_casts(@[c]) ELSE @[c]]]])
  /\ stage' = "loaded"
  /\ persisted' = NoFile
  /\ queried' = {}
  /\ UNCHANGED <<training, testing>>
  /\ UNCHANGED geoVars
  /\ UNCHANGED fnVars

\* the two raw files are put back as they were delivered, without the
\* Index column
RestoreRawFiles ==
  /\ stage \in RunEnds
  /\ run < MaxRuns
  /\ files.indexed
  /\ files' = [files EXCEPT !.indexed = FALSE]
  /\ UNCHANGED <<training, testing, env, stage, table, run, persisted,
                 queried, audit>>
  /\ UNCHANGED geoVars
  /\ UNCHANGED fnVars

\* between two runs the training file is replaced by a new delivery, which
\* comes without the Index column
ReplaceRawFiles ==
  /\ stage \in RunEnds
  /\ run >= 1
  /\ run < MaxRuns
  /\ \E delivery \in {<<<<"a">>>>, <<<<"hy">>>>} :
       /\ delivery # training
       /\ training' = delivery
  /\ files' = [files EXCEPT !.indexed = FALSE]
  /\ UNCHANGED <<testing, env, stage, table, run, persisted, queried, audit>>
  /\ UNCHANGED geoVars
  /\ UNCHANGED fnVars

\* process_address_mapping starts, called by load_address_mapping when
\* there is no addresses artifact or run as the script of load.py: the
\* switches are read from the environment and the addresses of the two
\* datasets are deduplicated
Deduplicate ==
  /\ stage \in RunEnds
  /\ run < MaxRuns
  /\ run' = run + 1
  /\ env' \in [{"ALWAYS_TRANSLATE", "ALWAYS_GEOCODE"} -> BOOLEAN]
  /\ \E entry \in {"load_address_mapping", "process_address_mapping"} :
       /\ entry = "load_address_mapping" => ~files.addresses.exists
       /\ audit' = NewAudit(entry)
  /\ table' = merge_on_unique(training, testing)
  /\ stage' = "deduped"
  /\ persisted' = NoFile
  /\ queried' = {}
  /\ UNCHANGED <<training, testing, files>>
  /\ UNCHANGED geoVars
  /\ UNCHANGED fnVars

LoadTranslations ==
  /\ stage = "deduped"
  /\ IF files.translated.exists /\ ~env.ALWAYS_TRANSLATE
     THEN /\ table' = ReadTranslations(files.translated)
          /\ UNCHANGED <<files, audit>>
     ELSE \E outcomes \in [1..Len(TranslationBatches(table)) -> BOOLEAN] :
            LET translated == translate_series(table, outcomes)
            IN /\ table' = [i \in 1..Len(table) |->
                              Row(table[i], translated[i], "absent", EmptyDict)]
               /\ files' = [files EXCEPT !.translated = File(table')]
               /\ audit' = [audit EXCEPT !.batches = Len(TranslationBatches(table))]
  /\ stage' = "translated"
  /\ UNCHANGED <<training, testing, env, run, persisted, queried>>
  /\ UNCHANGED geoVars
  /\ UNCHANGED fnVars

LoadGeocodedComponents ==
  /\ stage = "translated"
  /\ persisted' = files.geocoded
  /\ IF files.geocoded.exists /\ ~env.ALWAYS_GEOCODE
     THEN /\ table' = ReadGeocoded(files.geocoded)
          /\ queried' = {}
          /\ stage' = "geocoded"
          /\ UNCHANGED <<files, audit>>
     ELSE \E worlds \in [1..Len(table) -> Worlds] :
            LET done == GeocodedTasks(table, worlds)
            IN /\ queried' = {table[i].Address :
                                i \in {j \in 1..Len(table) : done[j].log # <<>>}}
               /\ audit' = [audit EXCEPT !.texts =
                      UNION {{done[i].log[k].text : k \in 1..Len(done[i].log)} :
                               i \in 1..Len(table)}]
               /\ IF \E i \in 1..Len(table) : done[i].pc = "raised"
                  THEN Crashed /\ UNCHANGED files
                  ELSE /\ table' = [i \in 1..Len(table) |-> done[i].row]
                       /\ files' = [files EXCEPT !.geocoded = File(table')]
                       /\ stage' = "geocoded"
  /\ UNCHANGED <<training, testing, env, run>>
  /\ UNCHANGED geoVars
  /\ UNCHANGED fnVars

\* BLOCK and LANE are emptied, then Translated, STREET and NEIGHBOURHOOD
\* are normalized; a table without one of those columns raises KeyError
NormalizeParts ==
  /\ stage = "geocoded"
  /\ IF {STREET, NEIGHBOURHOOD} \subseteq TableColumns(table)
     THEN /\ table' = [i \in 1..Len(table) |->
                 [table[i] EXCEPT
                    !.Translated = normalize_address_parts(@),
                    !.comps = DictSet(DictSet(DictSet(DictSet(@, BLOCK, ""), LANE, ""),
                                  STREET, NormalizedCell(Cell(table[i], STREET))),
                                NEIGHBOURHOOD,
                                NormalizedCell(Cell(table[i], NEIGHBOURHOOD)))]]
          /\ stage' = "normalized"
     ELSE Crashed
  /\ UNCHANGED <<training, testing, files, env, run, persisted, queried, audit>>
  /\ UNCHANGED geoVars
  /\ UNCHANGED fnVars

SeparateOnDelimiters ==
  /\ stage = "normalized"
  /\ LET cols == TableColumns(table)
         out == [i \in 1..Len(table) |->
                   separate_on_hardcoded_delimiters(table[i], cols)]
     IN table' = [i \in 1..Len(table) |->
                    [table[i] EXCEPT !.comps =
                       DictSet(DictSet(@, STREET, out[i].street), TOWN, out[i].town)]]
  /\ stage' = "delimited"
  /\ UNCHANGED <<training, testing, files, env, run, persisted, queried, audit>>
  /\ UNCHANGED geoVars
  /\ UNCHANGED fnVars

SeparateComponents ==
  /\ stage = "delimited"
  /\ LET out == separate_into_unique_components(table)
     IN IF out.raised THEN Crashed
        ELSE table' = out.table /\ stage' = "separated"
  /\ UNCHANGED <<training, testing, files, env, run, persisted, queried, audit>>
  /\ UNCHANGED geoVars
  /\ UNCHANGED fnVars

\* regional matching that does not wait for the separation of components
MatchRegionalLabels_BeforeSeparation ==
  /\ stage \in {"delimited", "separated"}
  /\ table' = separate_hardcoded_regional_labels(table, NoReference)
  /\ stage' = "matched"
  /\ UNCHANGED <<training, testing, files, env, run, persisted, queried, audit>>
  /\ UNCHANGED geoVars
  /\ UNCHANGED fnVars

MatchRegionalLabels ==
  /\ stage = "separated"
  /\ table' = separate_hardcoded_regional_labels(table, NoReference)
  /\ stage' = "matched"
  /\ UNCHANGED <<training, testing, files, env, run, persisted, queried, audit>>
  /\ UNCHANGED geoVars
  /\ UNCHANGED fnVars

\* the address columns are cast to strings, the index map is computed and
\* joined, the table is saved
MapIndices ==
  /\ stage = "matched"
  /\ IF Range(ADDRESS_COLUMNS) \subseteq TableColumns(table)
     THEN LET cast == [i \in 1..Len(table) |->
                         [table[i] EXCEPT !.comps =
                            [c \in DOMAIN @ |->
                               IF c \in Range(ADDRESS_COLUMNS)
                               THEN string_casts(@[c]) ELSE @[c]]]]
          IN /\ table' = MergeIndices(cast, map_address_indices(training, testing))
             /\ files' = [files EXCEPT !.addresses = File(table'),
                                       !.indexed = TRUE]
             /\ stage' = "saved"
     ELSE Crashed /\ UNCHANGED files
  /\ UNCHANGED <<training, testing, env, run, persisted, queried, audit>>
  /\ UNCHANGED geoVars
  /\ UNCHANGED fnVars

NextMap ==
  \/ LoadAddressMapping
  \/ RestoreRawFiles
  \/ ReplaceRawFiles
  \/ Deduplicate
  \/ LoadTranslations
  \/ LoadGeocodedComponents
  \/ NormalizeParts
  \/ SeparateOnDelimiters
  \/ SeparateComponents
  \/ MatchRegionalLabels
  \/ MapIndices

\* two raw datasets with at least one address between them, no artifact
\* on disk, no run started
InitMap ==
  /\ training \in Tables(RawTexts, MaxRaw)
  /\ testing \in Tables(RawTexts, MaxRaw)
  /\ DropNa(training \o testing) # <<>>
  /\ files = NoFiles
  /\ env = [k \in {"ALWAYS_TRANSLATE", "ALWAYS_GEOCODE"} |-> FALSE]
  /\ stage = "idle"
  /\ table = <<>>
  /\ run = 0
  /\ persisted = NoFile
  /\ queried = {}
  /\ audit = NoAudit
  /\ df = <<>>
  /\ tasks = <<>>
  /\ gathered = Pending
  /\ call = NoCall

SpecMap == InitMap /\ [][NextMap]_vars

\* ------------------------------------------------------------------------
\* scripts/api/geocode.py : one call of a provider on its own
\* ------------------------------------------------------------------------

\* geocode_dataframe is not running
NoGeocoding ==
  /\ df = <<>>
  /\ tasks = <<>>
  /\ gathered = Pending

\* `await query(address, session)` before its first request; `responses`
\* collects what the server answered to the requests of the call
NewCall(fn) ==
  [fn |-> fn, pc |-> "calling", attempt |-> 1, responses |-> <<>>,
   result |-> EmptyDict]

CallReturned(response, result) ==
  [call EXCEPT !.pc = "returned", !.responses = Append(@, response),
               !.result = result]

CallNominatim ==
  /\ call.fn = "query_nominatim"
  /\ call.pc = "calling"
  /\ \E response \in NominatimResponses :
       call' = CallReturned(response, query_nominatim(response))
  /\ UNCHANGED <<geoVars, pipeVars>>

CallAzure ==
  /\ call.fn = "query_azure"
  /\ call.pc = "calling"
  /\ \E response \in AzureResponses :
       call' = CallReturned(response, query_azure(response))
  /\ UNCHANGED <<geoVars, pipeVars>>

\* one pass of `for attempt in range(1, MAX_RETRIES + 1)`, the sleep included
CallYandex ==
  /\ call.fn = "query_yandex"
  /\ call.pc = "calling"
  /\ \E response \in YandexResponses :
       LET out == query_yandex_attempt(response, call.attempt)
       IN call' = IF out.done THEN CallReturned(response, out.value)
                  ELSE IF call.attempt < MAX_RETRIES
                  THEN [call EXCEPT !.attempt = @ + 1,
                                    !.responses = Append(@, response)]
                  ELSE CallReturned(response, EmptyDict)
  /\ UNCHANGED <<geoVars, pipeVars>>

NextCall ==
  \/ CallNominatim
  \/ CallYandex
  \/ CallAzure

InitCall ==
  /\ call \in {NewCall(fn) : fn \in {"query_nominatim", "query_yandex", "query_azure"}}
  /\ NoGeocoding
  /\ PipelineIdle

SpecCall == InitCall /\ [][NextCall]_vars

\* ------------------------------------------------------------------------
\* Helpers of the properties
\* ------------------------------------------------------------------------

IsPrefix(s, t) == Len(s) <= Len(t) /\ \A k \in 1..Len(s) : s[k] = t[k]

\* the providers queried for candidate number c, in the order of their
\* first request
RECURSIVE ProvidersOf(_, _)
ProvidersOf(log, c) ==
  IF log = <<>> THEN <<>>
  ELSE LET rest == ProvidersOf(SubSeq(log, 1, Len(log) - 1), c)
           e == log[Len(log)]
       IN IF e.ci = c /\ e.provider \notin Range(rest)
          THEN Append(rest, e.provider) ELSE rest

\* what provider p returned for candidate number c ({} while not queried)
ReturnedBy(t, c, p) ==
  IF <<c, p>> \in DOMAIN t.returned THEN t.returned[<<c, p>>] ELSE EmptyDict

Columns ==
  {LATITUDE, LONGITUDE, BUILDING, STREET, TOWN, VILLAGE, COUNTRY,
   ADMINISTRATIVE_UNIT, PROVINCE, NEIGHBOURHOOD, BLOCK, API}

\* ------------------------------------------------------------------------
\* Properties of geocode_row
\* ------------------------------------------------------------------------

\* C3: Status terminality.  geocode_row on a row whose Status is OK sends
\* no provider request and returns the row unchanged (status and every
\* component value), whatever the providers would answer.
C3_StatusTerminality ==
  \A i \in Rows :
    df[i].Status = "OK" =>
      /\ tasks[i].log = <<>>
      /\ tasks[i].row = df[i]
      /\ tasks[i].pc \in {"start", "done", "cancelled"}
      /\ gathered.state = "returned" => gathered.table[i] = df[i]

C3_Witness ==
  \E i \in Rows :
    /\ df[i].Status = "OK"
    /\ Len(address_candidates(df[i])) = 2
    /\ tasks[i].pc = "done"
    /\ gathered.state = "returned"

\* the chain order the documentation states: native-script local provider,
\* secondary provider, Latin-oriented provider; reversed for Latin script
DocumentedChain(address) ==
  IF is_non_english_string(address)
  THEN <<"Nominatim", "Yandex", "Azure">>
  ELSE <<"Azure", "Yandex", "Nominatim">>

\* C5: for a non-English-script candidate the providers are queried in the
\* order Nominatim, Yandex, Azure; for a Latin-script candidate in exactly
\* the reverse order.
C5_DocumentedChainOrder ==
  \A i \in Rows :
    \A c \in 1..Len(tasks[i].cands) :
      IsPrefix(ProvidersOf(tasks[i].log, c), DocumentedChain(tasks[i].cands[c]))

\* C6: for one candidate no provider later in the chain is queried once an
\* earlier provider has returned a non-empty component set.
C6_StopAtFirstNonEmpty ==
  \A i \in Rows :
    \A k \in 1..Len(tasks[i].log) :
      LET e == tasks[i].log[k]
          chain == ProviderChain(e.text)
      IN \A m, n \in 1..Len(chain) :
           (m < n /\ chain[n] = e.provider)
             => ~Truthy(ReturnedBy(tasks[i], e.ci, chain[m]))

\* the first provider, in chain order, that returned a non-empty value for
\* column x for candidate number c (0 if none did)
FirstSupplier(t, c, x) ==
  LET chain == ProviderChain(t.cands[c])
      suppliers == {n \in 1..Len(chain) : DictGet(ReturnedBy(t, c, chain[n]), x) # ""}
  IN IF suppliers = {} THEN 0
     ELSE CHOOSE n \in suppliers : \A m \in suppliers : n <= m

C8_CandidateList ==
  \A i \in Rows :
    LET t == tasks[i]
        texts == address_candidates(df[i])
    IN /\ (df[i].Status # "OK" /\ Len(texts) = 1 /\ t.pc # "start")
            => /\ t.pc \in {"query", "done", "cancelled"}
               /\ \A k \in 1..Len(t.log) : t.log[k].text = texts[1]
               /\ t.pc = "done" => t.log # <<>>
       /\ \A k \in 1..Len(t.log) :
            /\ t.log[k].text = texts[t.log[k].ci]
            /\ \A j \in 1..k : t.log[j].ci <= t.log[k].ci
            /\ t.log[k].ci = 2 =>
                 \A p \in Range(GEOCODERS) : ~Truthy(ReturnedBy(t, 1, p))

\* ------------------------------------------------------------------------
\* Properties of query_yandex
\* ------------------------------------------------------------------------

\* the request before the pending attempt of the running query_yandex call
\* was answered by a rate-limit response, after which the call slept
RateLimited(t) == t.wait.status = 429

\* the query_yandex call for candidate c used up all attempts and returned
Exhausted(t, c) ==
  /\ <<c, "Yandex">> \in DOMAIN t.returned
  /\ t.ci = c
  /\ t.yreq = MAX_RETRIES

\* C10 as stated: at most MAX_RETRIES requests per call, then an empty
\* result; after the rate-limit response to attempt k the call waits the
\* delay the Retry-After header specifies when the header is present, and
\* RETRY_BACKOFF * k seconds otherwise.
C10_RetryAfterWhenPresent ==
  \A i \in Rows :
    LET t == tasks[i]
    IN /\ t.yreq <= MAX_RETRIES
       /\ \A c \in 1..Len(t.cands) :
            Exhausted(t, c) => ~Truthy(ReturnedBy(t, c, "Yandex"))
       /\ RateLimited(t) =>
            t.wait.delay =
              IF t.wait.retry_after.kind \in {"int", "date"}
              THEN t.wait.retry_after.secs
              ELSE RETRY_BACKOFF * t.wait.k

\* C10 amended: at most MAX_RETRIES requests per call, then an empty
\* result; after the rate-limit response to attempt k the call waits the
\* Retry-After value when the header is an integer number of seconds, and
\* RETRY_BACKOFF * k seconds when the header is absent, empty or not an
\* integer.
C10_BoundedRetry ==
  \A i \in Rows :
    LET t == tasks[i]
    IN /\ t.yreq <= MAX_RETRIES
       /\ \A c \in 1..Len(t.cands) :
            Exhausted(t, c) => ~Truthy(ReturnedBy(t, c, "Yandex"))
       /\ RateLimited(t) =>
            t.wait.delay =
              IF t.wait.retry_after.kind = "int"
              THEN t.wait.retry_after.secs
              ELSE RETRY_BACKOFF * t.wait.k

\* three requests of one call were sent, the third was rate-limited with a
\* Retry-After that is no integer, and the fourth attempt is pending
C10_Witness ==
  \E i \in Rows :
    LET t == tasks[i]
    IN /\ t.pc = "query"
       /\ t.attempt = MAX_RETRIES
       /\ RateLimited(t)
       /\ t.wait.k = MAX_RETRIES - 1
       /\ t.wait.retry_after.kind = "date"
       /\ t.wait.delay = RETRY_BACKOFF * (MAX_RETRIES - 1)
       /\ t.yreq = MAX_RETRIES - 1

\* ------------------------------------------------------------------------
\* Properties of geocode_dataframe
\* ------------------------------------------------------------------------

\* no provider returned components for any candidate of row i
NothingFound(i) ==
  \A c \in DOMAIN tasks[i].returned : ~Truthy(tasks[i].returned[c])

\* C9: a failed row never aborts the batch.  geocode_dataframe returns one
\* result per input row; no exception reaches the caller and no row is left
\* unresolved; a row for which no candidate through no provider yields
\* components is marked FAILED, keeps its address text and gains no
\* component values.
C9_FailedRowNeverAborts ==
  /\ gathered.state # "raised"
  /\ \A i \in Rows : tasks[i].pc \notin {"raised", "cancelled"}
  /\ gathered.state = "returned" =>
       /\ Len(gathered.table) = Len(df)
       /\ \A i \in Rows :
            (df[i].Status # "OK" /\ NothingFound(i)) =>
              /\ gathered.table[i].Status = "FAILED"
              /\ gathered.table[i].Address = df[i].Address
              /\ gathered.table[i].comps = df[i].comps

\* ------------------------------------------------------------------------
\* Properties of process_address_mapping
\* ------------------------------------------------------------------------

\* the indices save_index assigns to the rows of the two datasets
AssignedIndices ==
  {<<TRAINING_INDEX_PREFIX, i - 1>> : i \in 1..Len(training)}
    \cup {<<TESTING_INDEX_PREFIX, i - 1>> : i \in 1..Len(testing)}

\* the index list of row i of the saved table, empty where the join found
\* no entry
ListOf(i) == table[i].Index.list

NoDuplicates(seq) ==
  \A j, k \in 1..Len(seq) : j # k => seq[j] # seq[k]

\* C1: after process_address_mapping the index lists of the unique-address
\* table partition the raw row indices: their union is the set of indices
\* save_index assigned, no index appears in two lists or twice in one list,
\* and the table has at most as many rows as the raw datasets.
C1_IndexListsPartition ==
  stage = "saved" =>
    /\ UNION {Range(ListOf(i)) : i \in 1..Len(table)} = AssignedIndices
    /\ \A i \in 1..Len(table) : NoDuplicates(ListOf(i))
    /\ \A i, j \in 1..Len(table) :
         i # j => Range(ListOf(i)) \cap Range(ListOf(j)) = {}
    /\ Len(table) <= Len(training) + Len(testing)

\* the raw rows, with the indices save_index assigns
RawRows ==
  save_index(training, TRAINING_INDEX_PREFIX)
    \o save_index(testing, TESTING_INDEX_PREFIX)

\* C2: the unique-address table holds exactly one row per distinct trimmed,
\* case-folded address text: no two rows share such a text, and the row of
\* a text lists the index of every raw row that carries it.
C2_OneRowPerFoldedAddress ==
  stage = "saved" =>
    /\ \A i, j \in 1..Len(table) :
         i # j => GroupKey(table[i].Address) # GroupKey(table[j].Address)
    /\ \A r \in 1..Len(RawRows) :
         RawRows[r].Address # NaN =>
           \E i \in 1..Len(table) :
             /\ GroupKey(table[i].Address) = GroupKey(RawRows[r].Address)
             /\ RawRows[r].Index \in Range(ListOf(i))

\* C4: resumability across runs.  When the Geocoder stage finds a persisted
\* geocoded artifact, it sends no provider request for an address whose
\* persisted status is OK, and it sends requests again for every address
\* whose persisted status is not OK.
C4_ResumableAcrossRuns ==
  (stage = "geocoded" /\ persisted.exists) =>
    \A i \in 1..Len(persisted.rows) :
      /\ persisted.rows[i].Status = "OK" =>
           persisted.rows[i].Address \notin queried
      /\ persisted.rows[i].Status # "OK" =>
           persisted.rows[i].Address \in queried

\* ------------------------------------------------------------------------
\* Properties of one provider call
\* ------------------------------------------------------------------------

\* a status-200 response with a non-empty payload the parser of the
\* provider can read
WellFormed(fn, response) ==
  /\ response.status = 200
  /\ CASE fn = "query_nominatim" ->
            response.body.kind = "list" /\ response.body.coords # "bad"
       [] fn = "query_yandex" ->
            response.body.kind = "geo" /\ response.body.pos = "ok"
       [] OTHER ->
            response.body.kind = "list" /\ Truthy(response.body.address)

\* the component map the parser of the provider produces for a body
ParsedBy(fn, body) ==
  CASE fn = "query_nominatim" -> parse_nominatim_components(body).value
    [] fn = "query_yandex" -> parse_yandex_components(body).value
    [] OTHER -> parse_azure_components(body).value

ProviderName(fn) ==
  CASE fn = "query_nominatim" -> "Nominatim"
    [] fn = "query_yandex" -> "Yandex"
    [] OTHER -> "Azure"

LastResponse == call.responses[Len(call.responses)]

\* C11: for each of the three providers a status-200 response with a
\* non-empty, well-formed payload makes the call return the non-empty
\* component map of the provider's parser, tagged under 'api' with the
\* provider's name.
C11_ParsedAndTagged ==
  (call.responses # <<>> /\ WellFormed(call.fn, LastResponse)) =>
    /\ call.pc = "returned"
    /\ Truthy(call.result)
    /\ call.result = DictSet(ParsedBy(call.fn, LastResponse.body), API,
                             ProviderName(call.fn))

\* a response that is neither a rate limit nor a readable 200: another
\* non-200 status, a network exception, or a 200 whose payload cannot be
\* parsed
Unusable(fn, response) ==
  /\ response.status # 429
  /\ response.status = 200 =>
       (response.body.kind # "empty" /\ ~WellFormed(fn, response))

\* C12: only a rate-limit (429) response makes a provider send another
\* request; any other non-200 status, a network exception, or a 200
\* response whose payload cannot be parsed ends the call after that single
\* request with an empty result.
C12_OnlyRateLimitRetries ==
  /\ \A k \in 1..(Len(call.responses) - 1) : call.responses[k].status = 429
  /\ (call.responses # <<>> /\ Unusable(call.fn, LastResponse)) =>
       /\ call.pc = "returned"
       /\ call.result = EmptyDict


\* ------------------------------------------------------------------------
\* load_address_mapping run twice
\* ------------------------------------------------------------------------

\* the translated, geocoded and addresses artifacts
Artifacts(f) == <<f.translated, f.geocoded, f.addresses>>

\* a run of load_address_mapping that follows a complete run of
\* load_address_mapping, with no switch set and the raw files as that run
\* left them
SecondRun ==
  /\ run >= 2
  /\ audit.entry = "load_address_mapping"
  /\ audit.prev.entry = "load_address_mapping"
  /\ audit.prev.stage \in {"saved", "loaded"}
  /\ audit.before.indexed
  /\ ~env.ALWAYS_TRANSLATE
  /\ ~env.ALWAYS_GEOCODE
  /\ ~ALWAYS_REMAP

\* C13: a run of load_address_mapping after a complete one, with no
\* override switch set and unchanged inputs, runs no stage of
\* process_address_mapping, sends no translation batch and no geocoding
\* request, and leaves the three artifacts as it found them
C13_SecondRunIdempotent ==
  SecondRun =>
    /\ stage = "loaded"
    /\ audit.batches = 0
    /\ queried = {}
    /\ Artifacts(files) = Artifacts(audit.before)

\* a second run has returned the table of a first run that sent requests
C13_Witness ==
  /\ SecondRun
  /\ stage = "loaded"
  /\ table # <<>>
  /\ audit.before.addresses.exists
  /\ \E i \in 1..Len(audit.before.geocoded.rows) :
       audit.before.geocoded.rows[i].Status = "OK"


\* ------------------------------------------------------------------------
\* scripts/api/translate.py : chunk_segments_and_bytes on its own
\* ------------------------------------------------------------------------

MaxStrings == 3

\* Armenian texts of 4, 6 and 8 encoded bytes
ChunkTexts == {<<"hy">>, <<"hy", "HY">>, <<"hy", "HY", "hy">>}

\* limits small enough for the texts to reach them
SegmentLimits == {1, 2}
ByteLimits == {5, 10}

\* list(chunk_segments_and_bytes(strings, max_segments, max_bytes))
CallChunk ==
  /\ call.fn = "chunk_segments_and_bytes"
  /\ call.pc = "calling"
  /\ call' = [call EXCEPT
       !.pc = "returned",
       !.result = chunk_segments_and_bytes(call.strings, call.max_segments,
                                           call.max_bytes)]
  /\ UNCHANGED <<geoVars, pipeVars>>

NextChunk == CallChunk

InitChunk ==
  /\ call \in {[fn |-> "chunk_segments_and_bytes", pc |-> "calling",
                 strings |-> strings, max_segments |-> max_segments,
                 max_bytes |-> max_bytes, result |-> <<>>] :
                  strings \in Tables(ChunkTexts, MaxStrings),
                  max_segments \in SegmentLimits, max_bytes \in ByteLimits}
  /\ NoGeocoding
  /\ PipelineIdle

SpecChunk == InitChunk /\ [][NextChunk]_vars

RECURSIVE Flatten(_)
Flatten(batches) ==
  IF batches = <<>> THEN <<>> ELSE Head(batches) \o Flatten(Tail(batches))

RECURSIVE BatchBytes(_)
BatchBytes(batch) ==
  IF batch = <<>> THEN 0 ELSE JsonBytes(Head(batch)) + BatchBytes(Tail(batch))

Occurrences(seq, s) == Cardinality({k \in 1..Len(seq) : seq[k] = s})

\* the string alone exceeds the byte limit
Oversized(batch, max_bytes) ==
  Len(batch) = 1 /\ JsonBytes(batch[1]) > max_bytes

\* C14: every batch chunk_segments_and_bytes yields is non-empty, holds at
\* most max_segments strings and at most max_bytes encoded bytes unless it
\* is the singleton of a string that alone exceeds max_bytes, and every
\* occurrence of an input string is in exactly one batch
C14_BatchLimits ==
  (call.fn = "chunk_segments_and_bytes" /\ call.pc = "returned") =>
    /\ \A k \in 1..Len(call.result) :
         LET batch == call.result[k]
         IN /\ batch # <<>>
            /\ Len(batch) <= call.max_segments
            /\ BatchBytes(batch) <= call.max_bytes
                 \/ Oversized(batch, call.max_bytes)
    /\ \A s \in ChunkTexts :
         Occurrences(Flatten(call.result), s) = Occurrences(call.strings, s)

\* a call on a list that repeats a string, which yielded the singleton of
\* an oversized string and a batch closed by one of the limits
C14_Witness ==
  /\ call.fn = "chunk_segments_and_bytes"
  /\ call.pc = "returned"
  /\ \E k \in 1..Len(call.result) : Oversized(call.result[k], call.max_bytes)
  /\ \E k \in 1..Len(call.result) :
       /\ Len(call.result[k]) = 1
       /\ ~Oversized(call.result[k], call.max_bytes)
       /\ k < Len(call.result)
  /\ Occurrences(call.strings, <<"hy">>) = 2


\* ------------------------------------------------------------------------
\* scripts/api/translate.py : translate_series on its own
\* ------------------------------------------------------------------------

MaxSeries == 3

\* two Armenian texts too long to share a request, a short Armenian text,
\* a Latin text, a missing value
SeriesTexts == {<<"hy..">>, <<"hy..", "hy">>, <<"hy">>, <<"a">>, NaN}

\* translate_series(series); `outcomes` tells, batch by batch, whether the
\* translation service answered
CallTranslateSeries ==
  /\ call.fn = "translate_series"
  /\ call.pc = "calling"
  /\ \E outcomes \in [1..Len(TranslationBatches(call.series)) -> BOOLEAN] :
       call' = [call EXCEPT !.pc = "returned",
                            !.outcomes = outcomes,
                            !.result = translate_series(call.series, outcomes)]
  /\ UNCHANGED <<geoVars, pipeVars>>

NextTranslate == CallTranslateSeries

InitTranslate ==
  /\ call \in {[fn |-> "translate_series", pc |-> "calling", series |-> series,
                 outcomes |-> <<>>, result |-> <<>>] :
                  series \in Tables(SeriesTexts, MaxSeries)}
  /\ NoGeocoding
  /\ PipelineIdle

SpecTranslate == InitTranslate /\ [][NextTranslate]_vars

TranslateReturned == call.fn = "translate_series" /\ call.pc = "returned"

\* the batches of the call that hold the text s
BatchesOf(s) ==
  {k \in 1..Len(TranslationBatches(call.series)) :
     s \in Range(TranslationBatches(call.series)[k])}

\* what a batch of the given outcome gives for the text s
BatchAnswer(s, ok) == IF ok THEN TranslatedText(s) ELSE TRANSLATION_FAILED

\* Latin-script and missing entries come back unchanged
PassedThrough ==
  \A i \in 1..Len(call.series) :
    (call.series[i] = NaN \/ ~is_non_english_string(call.series[i]))
      => call.result[i] = call.series[i]

AllTerminal(tbl) ==
  \A i \in 1..Len(tbl) : tbl[i].Status \in {"OK", "FAILED"}

\* the stages of the Component Separator
SeparatorStages == {"normalized", "delimited", "separated"}

\* the step takes the run into the stage
Enters(reached) == stage' = reached /\ stage # reached

\* C16: process_address_mapping runs Translator, Geocoder, Component
\* Separator, Regional Matcher in this order: the Geocoder starts on the
\* translated table, separation starts only on a table every row of which
\* left the Geocoder OK or FAILED, regional matching only on the separated
\* table, and the addresses artifact is written only after regional matching
C16_FixedStageOrder ==
  [][/\ Enters("translated") => stage = "deduped"
     /\ (Enters("geocoded") \/ files'.geocoded # files.geocoded
          \/ queried' \ queried # {})
          => stage = "translated"
     /\ (stage' \in SeparatorStages /\ stage \notin SeparatorStages)
          => stage = "geocoded" /\ AllTerminal(table)
     /\ Enters("matched") => stage = "separated" /\ AllTerminal(table)
     /\ Enters("saved") => stage = "matched"
     /\ (files'.addresses # files.addresses /\ stage' # "loaded")
          => stage = "matched" /\ stage' = "saved"]_vars

\* a run that sent requests has written the addresses artifact with every
\* row OK or FAILED, both present
C16_Witness ==
  /\ stage = "saved"
  /\ queried # {}
  /\ files.addresses.exists
  /\ AllTerminal(files.addresses.rows)
  /\ \E i, j \in 1..Len(table) :
       table[i].Status = "OK" /\ table[j].Status = "FAILED"


\* ------------------------------------------------------------------------
\* scripts/address/separate.py : separate_into_unique_components on its own
\* ------------------------------------------------------------------------

\* the columns separate_into_unique_components writes components into
TargetColumns == {BLOCK, LANE, BUILDING, NEIGHBOURHOOD, STREET_NUMBER}

\* the places of a geocoded row
SeparatorPlaces ==
  [c \in {TOWN, VILLAGE, ADMINISTRATIVE_UNIT, PROVINCE, COUNTRY} |->
     CASE c = TOWN -> "Yerevan"
       [] c = COUNTRY -> "Armenia"
       [] OTHER -> ""]

\* one geocoded row: a street with or without a house number or the name
\* of a numbered street, target cells empty or populated
SeparatorRows ==
  {Row(<<"a">>, translated, "OK",
       [c \in DOMAIN SeparatorPlaces \cup TargetColumns \cup {STREET} |->
          CASE c = STREET -> street
            [] c = BUILDING -> building
            [] c = NEIGHBOURHOOD -> neighbourhood
            [] c = BLOCK -> block
            [] c = LANE -> lane
            [] c = STREET_NUMBER -> number
            [] OTHER -> SeparatorPlaces[c]]) :
     translated \in {<<"a">>, <<"August 23 Street">>, <<"Abovyan Street 14">>},
     street \in {NA, "Abovyan Street", "Abovyan Street 12", "August 23 Street"},
     building \in {"", "7"},
     neighbourhood \in {"", "Kond", "Ani Block"},
     block \in {"", "1 Block"},
     lane \in {"", "2nd Lane"},
     number \in {"", "3rd"}}

\* separate_into_unique_components(df) on a table of one row
CallSeparate ==
  /\ call.fn = "separate_into_unique_components"
  /\ call.pc = "calling"
  /\ LET out == separate_into_unique_components(call.df)
     IN call' = [call EXCEPT !.pc = IF out.raised THEN "raised" ELSE "returned",
                             !.result = out.table]
  /\ UNCHANGED <<geoVars, pipeVars>>

NextSeparate == CallSeparate

InitSeparate ==
  /\ call \in {[fn |-> "separate_into_unique_components", pc |-> "calling",
                 df |-> <<row>>, result |-> <<>>] : row \in SeparatorRows}
  /\ NoGeocoding
  /\ PipelineIdle

SpecSeparate == InitSeparate /\ [][NextSeparate]_vars

SeparateReturned ==
  call.fn = "separate_into_unique_components" /\ call.pc = "returned"

\* the cell holds a non-empty value
Populated(cell) == cell # NA /\ cell # ""

\* C17: separate_into_unique_components never overwrites a populated target
\* field: a block, lane, building, neighbourhood or street-number cell that
\* holds a non-empty value before the call holds the same value after it,
\* also in a row whose street or translated text names a numbered street
C17_PopulatedTargetKept ==
  SeparateReturned =>
    \A c \in TargetColumns :
      Populated(Cell(call.df[1], c))
        => Cell(call.result[1], c) = Cell(call.df[1], c)

BuildingIn(value) == PatternMatch(BUILDING, value).matched

\* the pass over the street and the pass over the translated text find
\* different building codes
PassesDiffer ==
  /\ SeparateReturned
  /\ BuildingIn(Cell(call.df[1], STREET)) # ""
  /\ BuildingIn(SourceCell(call.df[1], TRANSLATED)) # ""
  /\ BuildingIn(Cell(call.df[1], STREET))
       # BuildingIn(SourceCell(call.df[1], TRANSLATED))

\* the value is no name of NUMBERED_STREETS
Unnumbered(value) ==
  \A k \in 1..Len(NUMBERED_STREETS) : value # NUMBERED_STREETS[k].expanded

ColumnsMissing(columns) == TRANSLATED # "" /\ ADDRESS \notin columns

\* the row of a frame with the given columns: row.get of a column the
\* frame lacks gives the empty text
FrameRow(columns, address, translated) ==
  Row(IF ADDRESS \in columns THEN address ELSE <<>>,
      IF TRANSLATED \in columns THEN translated ELSE <<>>,
      "absent", EmptyDict)

\* the frames with the given columns, of no row or one row
Frames(columns) ==
  {<<>>} \cup {<<FrameRow(columns, address, translated)>> :
                 address \in {<<"a">>, <<"hy">>, <<" ">>},
                 translated \in {<<"a">>, NaN}}

\* a geocoded artifact left by an earlier run
StoredGeocoded ==
  File(<<Row(<<"a">>, <<"a">>, "FAILED", EmptyDict)>>)

\* what one call of load_geocoded_components does
GeocodedOutcome(raised, read, requested, tbl) ==
  [raised |-> raised, read |-> read, requested |-> requested, table |-> tbl]

load_geocoded_components(columns, tbl, cache, always_geocode, worlds) ==
  IF ColumnsMissing(columns)
  THEN GeocodedOutcome("ValueError", FALSE, {}, <<>>)
  ELSE IF cache.exists /\ ~always_geocode
  THEN GeocodedOutcome("no", TRUE, {}, ReadGeocoded(cache))
  ELSE LET done == GeocodedTasks(tbl, worlds)
           requested == {k \in 1..Len(tbl) : done[k].log # <<>>}
       IN IF \E k \in 1..Len(tbl) : done[k].pc = "raised"
          THEN GeocodedOutcome("ValueError", FALSE, requested, <<>>)
          ELSE GeocodedOutcome("no", FALSE, requested,
                               [k \in 1..Len(tbl) |-> done[k].row])

CallLoadGeocoded ==
  /\ call.fn = "load_geocoded_components"
  /\ call.pc = "calling"
  /\ \E worlds \in [1..Len(call.df) -> Worlds] :
       call' = [call EXCEPT
          !.pc = "done",
          !.result = load_geocoded_components(call.columns, call.df,
                       call.cache, call.always_geocode, worlds)]
  /\ UNCHANGED <<geoVars, pipeVars>>

NextLoadGeocoded == CallLoadGeocoded

\* a frame with any of the two columns, of no row or one row, with or
\* without a stored artifact, the switch set or not
InitLoadGeocoded ==
  /\ \E columns \in SUBSET {ADDRESS, TRANSLATED} :
       call \in {[fn |-> "load_geocoded_components", pc |-> "calling",
                   columns |-> columns, df |-> frame, cache |-> cache,
                   always_geocode |-> always_geocode,
                   result |-> GeocodedOutcome("no", FALSE, {}, <<>>)] :
                    frame \in Frames(columns),
                    cache \in {NoFile, StoredGeocoded},
                    always_geocode \in BOOLEAN}
  /\ NoGeocoding
  /\ PipelineIdle

SpecLoadGeocoded == InitLoadGeocoded /\ [][NextLoadGeocoded]_vars

\* C19: load_geocoded_components raises an error when the address column
\* or the translated column is missing, before it reads the stored
\* artifact or sends a provider request
C19_MissingColumnRaises ==
  (/\ call.fn = "load_geocoded_components"
   /\ call.pc = "done"
   /\ ~({ADDRESS, TRANSLATED} \subseteq call.columns))
    => /\ call.result.raised # "no"
       /\ ~call.result.read
       /\ call.result.requested = {}


\* ------------------------------------------------------------------------
\* scripts/address/lookup.py : fuzzy_match on its own
\* ------------------------------------------------------------------------

\* the names the choice sets are made of
ChoiceNames == {"Nor Nork", "Nork", "Stepanavan", "Stepanavank"}

\* query texts: names of one word and of two words, a misspelt name, a
\* name no choice resembles
QueryTexts ==
  {<<"Nor", " ", "Nork">>, <<"Nork">>, <<"Stepanavan">>, <<"Stepanavar">>,
   <<"Stepanavank">>, <<"Ararat">>}

\* fuzzy_match(string, choices)
CallFuzzyMatch ==
  /\ call.fn = "fuzzy_match"
  /\ call.pc = "calling"
  /\ \E result \in fuzzy_match(call.string, call.choices) :
       call' = [call EXCEPT !.pc = "returned", !.result = result]
  /\ UNCHANGED <<geoVars, pipeVars>>

NextFuzzy == CallFuzzyMatch

InitFuzzy ==
  /\ call \in {[fn |-> "fuzzy_match", pc |-> "calling", string |-> string,
                 choices |-> choices, result |-> ""] :
                  string \in QueryTexts, choices \in SUBSET ChoiceNames}
  /\ NoGeocoding
  /\ PipelineIdle

SpecFuzzy == InitFuzzy /\ [][NextFuzzy]_vars

\* C20: fuzzy_match called with a text equal to one of the choices returns
\* that choice, never a choice that matches only a word of the text or
\* only reaches the threshold; a choice different from the text is
\* returned only when its score exceeds 90, otherwise the result is empty
C20_ExactChoiceWins ==
  (call.fn = "fuzzy_match" /\ call.pc = "returned") =>
    LET query == Spell(call.string)
    IN /\ query \in call.choices => call.result = query
       /\ call.result \in call.choices \cup {""}
       /\ (call.result # "" /\ call.result # query)
            => Score(query, call.result) > FUZZY_MATCH_ACCURACY


\* ------------------------------------------------------------------------
\* scripts/address/separate.py : separate_hardcoded_regional_labels on its
\* own
\* ------------------------------------------------------------------------

MaxWords == 2

\* the words of a translated address: the names of the reference file and
\* the word every street ends with
LabelWords ==
  {<<"Yerevan">>, <<"Kotayk">>, <<"Kentron">>, <<"Abovyan">>, <<"Aramus">>,
   <<"Street">>}

\* the translated addresses of up to MaxWords words
LabelTexts == {Join(words) : words \in Tables(LabelWords, MaxWords)}

\* separate_hardcoded_regional_labels(df) on a table of one row
CallLabels ==
  /\ call.fn = "separate_hardcoded_regional_labels"
  /\ call.pc = "calling"
  /\ call' = [call EXCEPT
       !.pc = "returned",
       !.result = separate_hardcoded_regional_labels(call.df, call.reference)]
  /\ UNCHANGED <<geoVars, pipeVars>>

NextLabels == CallLabels

\* one row that the geocoder left with or without a town, with or
\* without the reference file
InitLabels ==
  /\ call \in {[fn |-> "separate_hardcoded_regional_labels", pc |-> "calling",
                 df |-> <<Row(<<"a">>, translated, "OK",
                              [c \in {TOWN} |-> town])>>,
                 reference |-> reference, result |-> <<>>] :
                  translated \in LabelTexts, town \in {"", "Garni"},
                  reference \in {NoReference, ReferenceFile}}
  /\ NoGeocoding
  /\ PipelineIdle

SpecLabels == InitLabels /\ [][NextLabels]_vars

LabelsReturned ==
  call.fn = "separate_hardcoded_regional_labels" /\ call.pc = "returned"

\* what fuzzy_match finds in the translated text of the row of the call
MatchedIn(choices) == Only(fuzzy_match(call.df[1].Translated, choices))

\* C21: when no province was matched but an administrative unit was, the
\* province is the one the unit maps to; when no administrative unit was
\* matched but a town was, the unit is the one the town maps to; a matched
\* province or administrative unit is never replaced by a back-filled one
C21_GapFilling ==
  LabelsReturned =>
    LET region == retrieve_armenian_regional_structure(call.reference)
        province == MatchedIn(region.provinces)
        unit == MatchedIn(DOMAIN region.administrative_units_mapping)
        town == Cell(call.result[1], TOWN)
        out == call.result[1]
    IN /\ province # "" => Cell(out, PROVINCE) = province
       /\ unit # "" => Cell(out, ADMINISTRATIVE_UNIT) = unit
       /\ (province = "" /\ unit # "")
            => Cell(out, PROVINCE) = region.administrative_units_mapping[unit]
       /\ (unit = "" /\ town # "")
            => Cell(out, ADMINISTRATIVE_UNIT) = region.locality_mapping[town]

\* a row whose province was back-filled from its district, and a row whose
\* administrative unit was back-filled from its town
C21_Witness ==
  /\ LabelsReturned
  /\ call.reference.exists
  /\ \/ /\ call.df[1].Translated = <<"Kentron">>
        /\ Cell(call.result[1], PROVINCE) = "Yerevan"
     \/ /\ call.df[1].Translated = <<"Aramus">>
        /\ Cell(call.result[1], ADMINISTRATIVE_UNIT) = "Abovyan"
        /\ Cell(call.result[1], PROVINCE) = ""

\* C29: after separate_hardcoded_regional_labels every row whose province
\* is Yerevan has an empty town, also when the province was back-filled
\* from a matched administrative unit
C29_YerevanHasNoTown ==
  (LabelsReturned /\ Cell(call.result[1], PROVINCE) = "Yerevan")
    => Cell(call.result[1], TOWN) = ""


\* ------------------------------------------------------------------------
\* scripts/address/load.py : load_address_mapping with the addresses
\* artifact on disk, whatever wrote it
\* ------------------------------------------------------------------------

MaxCached == 2

\* a row of addresses.csv; `index` is the cell of the Index column
CachedRow(address, index) ==
  [Address |-> address, Translated |-> address, Status |-> "OK",
   comps |-> [c \in Range(ADDRESS_COLUMNS) |-> ""], Index |-> index]

\* addresses.csv as one of the writers of load.py left it, with the Index
\* column, and as a file that was saved without that column
CachedFiles ==
  {[exists |-> TRUE, indexcol |-> TRUE, rows |-> rows] :
     rows \in Tables({CachedRow(a, x) :
                        a \in {<<"a">>, <<"hy">>},
                        x \in {NoIndex, IndexList(<<<<"TR", 0>>>>)}},
                     MaxCached)}
  \cup {[exists |-> TRUE, indexcol |-> FALSE, rows |-> rows] :
          rows \in Tables({CachedRow(a, NoIndex) : a \in {<<"a">>, <<"hy">>}},
                          MaxCached)}

\* load_address_mapping when ADDRESSES.exists(): `indexed` tells whether
\* the two datasets carry the Index column, `cache.indexcol` whether the
\* table read from the file does. The result names whether the index map
\* was computed again, the table that was joined and written, the rows
\* logged as not mapped, and what explode_addresses_on_index returned or
\* raised
load_address_mapping(first, second, indexed, cache) ==
  LET addresses == ReadAddresses(cache)
      remap == NeedsRemap(indexed)
      mapped == IF remap
                THEN remap_address_row_indices(first, second, addresses)
                ELSE addresses
      cast == [i \in 1..Len(mapped) |->
                 [mapped[i] EXCEPT !.comps =
                    [c \in DOMAIN @ |->
                       IF c \in Range(ADDRESS_COLUMNS)
                       THEN string_casts(@[c]) ELSE @[c]]]]
      held == remap \/ cache.indexcol
  IN [remapped |-> remap,
      mapped |-> mapped,
      warned |-> IF remap
                 THEN {i \in 1..Len(mapped) : mapped[i].Index.isna}
                 ELSE {},
      raised |-> IF held THEN "" ELSE "KeyError",
      table |-> IF held THEN explode_addresses_on_index(cast) ELSE <<>>]

CallLoadAddressMapping ==
  /\ call.fn = "load_address_mapping"
  /\ call.pc = "calling"
  /\ call' = [call EXCEPT
       !.pc = "returned",
       !.result = load_address_mapping(call.training, call.testing,
                                       call.indexed, call.cache)]
  /\ UNCHANGED <<geoVars, pipeVars>>

NextCached == CallLoadAddressMapping

InitCached ==
  /\ call \in {[fn |-> "load_address_mapping", pc |-> "calling",
                 training |-> first, testing |-> second,
                 indexed |-> indexed, cache |-> cache,
                 result |-> <<>>] :
                  first \in Tables(RawTexts, MaxRaw),
                  second \in Tables(RawTexts, MaxRaw),
                  indexed \in BOOLEAN, cache \in CachedFiles}
  /\ NoGeocoding
  /\ PipelineIdle

SpecCached == InitCached /\ [][NextCached]_vars

CachedReturned == call.fn = "load_address_mapping" /\ call.pc = "returned"

\* C22: whenever the cached addresses table lacks the Index column or
\* ALWAYS_REMAP is set, load_address_mapping computes the index map again
\* and left-joins it onto the cached table; the join keeps every row of
\* the cached table, and the rows left without indices are logged, nothing
\* is raised
C22_RemapOnChange ==
  (CachedReturned /\ (~call.cache.indexcol \/ ALWAYS_REMAP)) =>
    /\ call.result.remapped
    /\ Len(call.result.mapped) = Len(call.cache.rows)
    /\ \A i \in 1..Len(call.cache.rows) :
         call.result.mapped[i].Address = GroupKey(call.cache.rows[i].Address)
    /\ call.result.raised = ""


\* ------------------------------------------------------------------------
\* scripts/address/separate.py : fix_generic_streets on its own
\* ------------------------------------------------------------------------

\* the columns fix_generic_streets compares the street with, in the order
\* of its loop
PlaceColumns == <<TOWN, VILLAGE, ADMINISTRATIVE_UNIT, PROVINCE, COUNTRY>>

\* the place name a column of the rows below holds when it holds one
PlaceName(c) ==
  CASE c = TOWN -> "Aramus"
    [] c = VILLAGE -> "Garni"
    [] c = ADMINISTRATIVE_UNIT -> "Abovyan"
    [] c = PROVINCE -> "Kotayk"
    [] c = COUNTRY -> "Armenia"

\* one row after the regex passes: a street that is missing, empty,
\* generic, the name of a place or a proper street, and place columns that
\* are missing, empty or filled
StreetRows ==
  {Row(<<"a">>, <<"a">>, "OK",
       [c \in Range(PlaceColumns) \cup {STREET} |->
          IF c = STREET THEN street
          ELSE IF c \in filled THEN PlaceName(c)
          ELSE IF c \in missing THEN NA ELSE ""]) :
     street \in {NA, "", "Street", "Aramus", "Armenia", "Abovyan Street"},
     filled \in SUBSET Range(PlaceColumns),
     missing \in SUBSET {TOWN, VILLAGE}}

\* df.apply(fix_generic_streets, axis=1) on a table of one row
CallFixGenericStreets ==
  /\ call.fn = "fix_generic_streets"
  /\ call.pc = "calling"
  /\ LET out == fix_generic_streets(call.df[1], DOMAIN call.df[1].comps)
     IN call' = [call EXCEPT !.pc = IF out.raised THEN "raised" ELSE "returned",
                             !.result = <<out.row>>]
  /\ UNCHANGED <<geoVars, pipeVars>>

NextStreets == CallFixGenericStreets

InitStreets ==
  /\ call \in {[fn |-> "fix_generic_streets", pc |-> "calling",
                 df |-> <<row>>, result |-> <<>>] : row \in StreetRows}
  /\ NoGeocoding
  /\ PipelineIdle

SpecStreets == InitStreets /\ [][NextStreets]_vars

StreetsReturned == call.fn = "fix_generic_streets" /\ call.pc = "returned"

\* the place columns of the row that hold a value, in the order of the loop
FilledPlaces(row) == SelectSeq(PlaceColumns, LAMBDA c : Populated(Cell(row, c)))

\* C23: fix_generic_streets sets a street missing that is identical to the
\* town, village, administrative unit, province or country of its row; it
\* replaces the street "Street" by the first non-empty of these values, in
\* that order, followed by "Street"; every other street is left unchanged
C23_GenericStreets ==
  StreetsReturned =>
    LET row == call.df[1]
        street == Cell(row, STREET)
        places == FilledPlaces(row)
        fixed == Cell(call.result[1], STREET)
    IN IF Populated(street) /\ \E k \in 1..Len(places) : Cell(row, places[k]) = street
       THEN fixed = NA
       ELSE IF street = "Street" /\ places # <<>>
       THEN fixed = Cell(row, places[1]) \o " Street"
       ELSE fixed = street


\* ------------------------------------------------------------------------
\* Properties of geocode_dataframe: the rows of one call
\* ------------------------------------------------------------------------

\* what the providers of the chain of candidate number c returned to task
\* t, merged in chain order up to provider number k
RECURSIVE OwnMerged(_, _, _)
OwnMerged(t, c, k) ==
  IF k = 0 THEN EmptyDict
  ELSE LET before == OwnMerged(t, c, k - 1)
           ret == ReturnedBy(t, c, ProviderChain(t.cands[c])[k])
       IN IF Truthy(ret) THEN MergeResponse(before, ret) ELSE before

\* the row geocode_row makes of row number i of df and of the responses
\* its own requests received
OwnOutcome(i) ==
  LET t == tasks[i]
      found == {c \in 1..Len(t.cands) : Truthy(OwnMerged(t, c, Len(GEOCODERS)))}
      first == CHOOSE c \in found : \A d \in found : c <= d
  IN IF df[i].Status = "OK" THEN df[i]
     ELSE IF found = {}
     THEN Row(df[i].Address, df[i].Translated, "FAILED", df[i].comps)
     ELSE Row(df[i].Address, df[i].Translated, "OK",
              AssignComponents(df[i].comps, OwnMerged(t, first, Len(GEOCODERS))))

\* a step of a running coroutine changes the state of that coroutine
\* alone, and no step changes the table geocode_dataframe was given
OwnRowOnly ==
  /\ df' = df
  /\ gathered' = gathered =>
       \A i, j \in Rows : (tasks'[i] # tasks[i] /\ tasks'[j] # tasks[j]) => i = j

\* C25: in every interleaving of the geocode_row tasks of
\* geocode_dataframe a task reads and writes its own row only, and the
\* table gather delivers has one entry per row of df, in the order of df,
\* each with the address text of its row and the status and components
\* that follow from the responses to the requests of that row
C25_PerRowIndependence ==
  /\ [](gathered.state = "returned" =>
          /\ Len(gathered.table) = Len(df)
          /\ \A i \in Rows : gathered.table[i] = OwnOutcome(i))
  /\ [][OwnRowOnly]_vars

\* two rows whose requests were answered differently: the first one
\* failed, the second one was geocoded, and the table holds them in the
\* order of df
C25_Witness ==
  /\ gathered.state = "returned"
  /\ Len(df) = 2
  /\ tasks[1].log # <<>>
  /\ tasks[2].log # <<>>
  /\ gathered.table[1].Status = "FAILED"
  /\ gathered.table[2].Status = "OK"
  /\ Truthy(gathered.table[2].comps)


\* C26: within one geocode_row call no provider is sent the same query
\* text for more than one candidate of the row, and only the retrying
\* provider sends a text more than once for one candidate; this includes
\* the rows whose address is Latin, for which translate_series leaves the
\* translated text equal to the native one
C26_AtMostOncePerText ==
  \A i \in Rows :
    \A j, k \in 1..Len(tasks[i].log) :
      LET first == tasks[i].log[j]
          second == tasks[i].log[k]
      IN (first.provider = second.provider /\ first.text = second.text)
           => /\ first.ci = second.ci
              /\ first.provider # "Yandex" => j = k


\* C27: the marker of a failed translation is never treated as an address:
\* no provider is queried with the marker text, and a run that finds the
\* translations artifact and runs without ALWAYS_TRANSLATE does not take
\* the marker as the translation of an address
C27_MarkerNeverAnAddress ==
  /\ TRANSLATION_FAILED \notin audit.texts
  /\ (/\ stage = "translated"
      /\ audit.before.translated.exists
      /\ ~env.ALWAYS_TRANSLATE)
       => \A i \in 1..Len(table) : table[i].Translated # TRANSLATION_FAILED


\* the addresses of a table, and those of the series merge_on_unique
\* returns
AddressesOf(tbl) == {tbl[i].Address : i \in 1..Len(tbl)}

\* C28: the table load_translations returns and the table
\* load_geocoded_components returns hold exactly the addresses of the table
\* they were given, also when they are read from an artifact and the raw
\* datasets have changed since the artifact was written
C28_StageOutputCoversInput ==
  [][/\ (stage = "deduped" /\ stage' = "translated")
         => AddressesOf(table') = Range(table)
     /\ (stage = "translated" /\ stage' = "geocoded")
         => AddressesOf(table') = AddressesOf(table)]_vars


\* load_address_mapping has returned `table`: from process_address_mapping
\* when it found no addresses artifact, else from
\* explode_addresses_on_index
MappingReturned ==
  /\ audit.entry = "load_address_mapping"
  /\ stage \in {"saved", "loaded"}

\* the Index cell holds one row index or nothing, not a list
ScalarIndex(cell) == cell.isna \/ DOMAIN cell = {"isna", "label"}

\* C30: on the path that computes the table and on the path that reads it
\* from the artifact load_address_mapping returns a table of the same
\* shape: the Index column holds one row index per row, and every row
\* index of the raw datasets occurs in exactly one row
C30_CacheOrComputeShape ==
  MappingReturned =>
    /\ \A i \in 1..Len(table) : ScalarIndex(table[i].Index)
    /\ \A x \in AssignedIndices :
         Cardinality({i \in 1..Len(table) :
                        /\ ~table[i].Index.isna
                        /\ ScalarIndex(table[i].Index)
                        /\ table[i].Index.label = x}) = 1

====
